---- MODULE Spec2Model ----
(***************************************************************************)
(* A model of the two patch scripts of electron-extra-codecs:              *)
(*   scripts/patch_ffmpeg_configs.py   (FFmpeg generated configs)          *)
(*   scripts/patch_chromium_media.py   (Chromium media layer)              *)
(*                                                                         *)
(* Texts are sequences of tokens.  A token is a tuple of strings whose     *)
(* first element is its kind:                                              *)
(*   <<"nl">>  the character \n         <<"cr">>  the character \r         *)
(*   <<"sp">>  one blank or tab         <<"lb">>  {        <<"rb">>  }     *)
(*   <<"mk">>  the text GNI_MARKER                                         *)
(*   <<"q", d1, .., dn, stem, ext>>  the quoted string "d1/../dn/stem.ext" *)
(*   <<"w", t>>  any other run of characters t (no quote, brace, newline)  *)
(* A source path is the tuple <<d1, .., dn, stem, ext>>.                   *)
(* Python indexes are 0-based; the model's are 1-based, and a Python       *)
(* "not found" (-1 or None) is 0.                                          *)
(***************************************************************************)
EXTENDS Integers, Sequences, FiniteSets, TLC

VARIABLES
    \* --- descriptor rebuilds (SpecGni) ---
    gni,        \* the text of ffmpeg_generated.gni
    gni0,       \* the text the descriptor started with
    srcFiles,   \* the catalog sources that exist under third_party/ffmpeg
    gniIn,      \* the text the last rebuild read
    gniRes,     \* what the last rebuild returned and computed
    gniFresh,   \* the last step was a rebuild (no file appeared since)
    gniRuns,    \* rebuilds made so far
    \* --- the collision resolver alone (SpecResolve) ---
    resSources, \* the candidates, in order
    resPool,    \* the claimed base names before the call
    resOut,     \* what the call returned
    resDone,    \* the call was made
    \* --- one list file patched again and again (SpecList) ---
    listText,   \* the list file's text, a sequence of tokens
    listEntries,\* the required entries, in order
    listIn,     \* the text the last call was given
    listOut,    \* what the last call returned, or that it raised
    listRuns,   \* calls made so far
    \* --- one run of either script (Spec) ---
    script,     \* the script that runs
    check,      \* --check (--dry-run) was given
    pc,         \* where main stands
    loopAt,     \* the target, or the edit, main's loop is at
    written,    \* the files written so far, in order
    backups,    \* the files whose .orig backup exists
    backups0,   \* the backups that existed before the run
    status,     \* the exit status
    error,      \* the error the run ended with
    warned,     \* main's warnings
    counts,     \* main's totals
    edits,      \* patch_chromium_media's edits
    summary,    \* the lines reported
    \* --- one patcher applied to a text again and again ---
    fnName,     \* the function applied
    fnText,     \* the text as it stands
    fnIn,       \* what the last call was given
    fnOut,      \* what the last call returned
    fnRuns      \* calls made so far

gniVars == <<gni, gni0, srcFiles, gniIn, gniRes, gniFresh, gniRuns>>
resVars == <<resSources, resPool, resOut, resDone>>
listVars == <<listText, listEntries, listIn, listOut, listRuns>>

runVars == <<script, check, pc, loopAt, written, backups, backups0, status, error,
             warned, counts, edits, summary>>

fnVars == <<fnName, fnText, fnIn, fnOut, fnRuns>>

vars == <<gniVars, resVars, listVars, runVars, fnVars>>

(***************************************************************************)
(* Generic sequence helpers (Python str / list primitives).                *)
(***************************************************************************)
NL == <<"nl">>
CR == <<"cr">>
FF == <<"ff">>
SP == <<"sp">>
LB == <<"lb">>
RB == <<"rb">>
\* a // comment, up to the end of its line
CMT == <<"cmt">>
MK == <<"mk">>
W(t) == <<"w", t>>
Q(path) == <<"q">> \o path

\* the value of a one-element set: binds a value once where it is used often
The(S) == CHOOSE x \in S : TRUE

Range(s) == {s[i] : i \in 1..Len(s)}

\* s[a:b] for 0-based Python bounds a, b already clipped to 0..len(s)
Slice(s, a, b) == SubSeq(s, a + 1, b)

\* s.startswith(sub, at) with at a 1-based position
MatchAt(s, sub, at) ==
    /\ at >= 1
    /\ at + Len(sub) - 1 <= Len(s)
    /\ \A k \in 1..Len(sub) : s[at + k - 1] = sub[k]

\* s.find(sub, from): the first 1-based position >= from where sub occurs, 0 if none
Find(s, sub, from) ==
    LET hits == {i \in from..Len(s) : MatchAt(s, sub, i)}
    IN  IF hits = {} THEN 0 ELSE CHOOSE i \in hits : \A j \in hits : i <= j

\* s.rfind(sub, 0, end): the last 1-based position where sub occurs wholly
\* inside the first `end` elements, 0 if none
RFind(s, sub, end) ==
    LET hits == {i \in 1..end : i + Len(sub) - 1 <= end /\ MatchAt(s, sub, i)}
    IN  IF hits = {} THEN 0 ELSE CHOOSE i \in hits : \A j \in hits : i >= j

Contains(s, sub) == Find(s, sub, 1) # 0

EndsWith(s, sub) == Len(sub) <= Len(s) /\ MatchAt(s, sub, Len(s) - Len(sub) + 1)

\* s.rstrip(chars) / s.lstrip(chars): chars is a set of tokens
RECURSIVE RStrip(_, _)
RStrip(s, chars) ==
    IF s # <<>> /\ s[Len(s)] \in chars THEN RStrip(SubSeq(s, 1, Len(s) - 1), chars)
    ELSE s

RECURSIVE LStrip(_, _)
LStrip(s, chars) ==
    IF s # <<>> /\ s[1] \in chars THEN LStrip(Tail(s), chars) ELSE s

RECURSIVE Concat(_)
Concat(ss) == IF ss = <<>> THEN <<>> ELSE Head(ss) \o Concat(Tail(ss))

\* sep.join(lines)
RECURSIVE Join(_, _)
Join(lines, sep) ==
    IF lines = <<>> THEN <<>>
    ELSE IF Len(lines) = 1 THEN lines[1]
    ELSE lines[1] \o sep \o Join(Tail(lines), sep)

Count(s, tok) == Cardinality({i \in 1..Len(s) : s[i] = tok})

\* detect_newline: "\r\n" if "\r\n" occurs anywhere in the text, else "\n"
\* read_text: Path.read_text opens the file with universal newlines, so \r\n
\* and a lone \r both arrive as \n
read_text(content) ==
    LET kept == {i \in 1..Len(content) :
                    ~(content[i] = NL /\ i > 1 /\ content[i - 1] = CR)}
        nth(k) == CHOOSE i \in kept : Cardinality({j \in kept : j <= i}) = k
    IN  IF \A i \in 1..Len(content) : content[i] # CR THEN content
        ELSE [k \in 1..Cardinality(kept) |->
                 IF content[nth(k)] = CR THEN NL ELSE content[nth(k)]]

detect_newline(text) == IF Contains(text, <<CR, NL>>) THEN <<CR, NL>> ELSE <<NL>>

(***************************************************************************)
(* patch_ffmpeg_configs.py: catalogs.  Each list keeps entries of the       *)
(* script's own list, in the script's order; the entries kept are the ones  *)
(* whose base names meet (hevc/data.c against a data.c of the descriptor,   *)
(* x86/fmtconvert_init.c against aarch64/fmtconvert_init.c).                *)
(***************************************************************************)
EXTRA_C_SOURCES ==
    << <<"libavcodec", "hevc", "data", "c">>,
       <<"libavcodec", "ac3", "c">> >>

EXTRA_X86_C_SOURCES == << <<"libavcodec", "x86", "fmtconvert_init", "c">> >>

EXTRA_X86_ASM_SOURCES == << <<"libavcodec", "x86", "ac3dsp", "asm">> >>

EXTRA_AARCH64_C_SOURCES == << <<"libavcodec", "aarch64", "fmtconvert_init", "c">> >>

EXTRA_AARCH64_GAS_SOURCES == << <<"libavcodec", "aarch64", "ac3dsp_neon", "S">> >>

\* the first entries of the list catalogs
CODEC_LIST_ENTRIES == <<"&ff_hevc_decoder", "&ff_ac3_decoder">>

PARSER_LIST_ENTRIES == <<"&ff_ac3_parser">>

DEMUXER_LIST_ENTRIES == <<"&ff_dtshd_demuxer", "&ff_dts_demuxer">>

AllExtraSources ==
    Range(EXTRA_C_SOURCES) \cup Range(EXTRA_X86_C_SOURCES)
        \cup Range(EXTRA_X86_ASM_SOURCES) \cup Range(EXTRA_AARCH64_C_SOURCES)
        \cup Range(EXTRA_AARCH64_GAS_SOURCES)

GNI_MARKER == <<MK>>

(***************************************************************************)
(* Paths (pathlib.Path of a relative POSIX path).                          *)
(***************************************************************************)
\* p.name
BaseName(path) == path[Len(path) - 1] \o "." \o path[Len(path)]

\* the directories of p, outermost first (p.parent)
Dirs(path) == SubSeq(path, 1, Len(path) - 2)

IsQuoted(tok) == tok[1] = "q"
PathOf(tok) == Tail(tok)

\* get_gni_c_basenames: the base names of every quoted string ending in .c
get_gni_c_basenames(gni_text) ==
    {BaseName(PathOf(gni_text[i])) :
        i \in {j \in 1..Len(gni_text) :
                  IsQuoted(gni_text[j]) /\ gni_text[j][Len(gni_text[j])] = "c"}}

(***************************************************************************)
(* resolve_basename_collisions.  The result carries the pool as the loop   *)
(* leaves it (the Python set is mutated in place and shared by the calls). *)
(***************************************************************************)
\* a faulty variant: the wrapper is put beside the file it includes, in g/s
WrapperOf_Beside(source) ==
    LET parent == Dirs(source)
        subdir == IF parent = <<>> THEN "" ELSE parent[Len(parent)]
    IN  [name    |-> subdir \o "_" \o BaseName(source),
         path    |-> parent \o <<subdir \o "_" \o source[Len(source) - 1], source[Len(source)]>>,
         include |-> <<subdir, source[Len(source) - 1], source[Len(source)]>>]

\* the wrapper of a colliding source: (wrapper_name, wrapper_path, include_path)
WrapperOf(source) ==
    LET parent      == Dirs(source)
        subdir      == IF parent = <<>> THEN "" ELSE parent[Len(parent)]
        grandparent == IF parent = <<>> THEN <<>> ELSE SubSeq(parent, 1, Len(parent) - 1)
        stem        == source[Len(source) - 1]
        ext         == source[Len(source)]
    IN  [name    |-> subdir \o "_" \o BaseName(source),
         path    |-> grandparent \o <<subdir \o "_" \o stem, ext>>,
         include |-> <<subdir, stem, ext>>]

RECURSIVE ResolveLoop(_, _, _, _)
ResolveLoop(sources, pool, resolved, wrappers) ==
    IF sources = <<>> THEN [resolved |-> resolved, wrappers |-> wrappers, pool |-> pool]
    ELSE LET source   == Head(sources)
             basename == BaseName(source)
             wr       == WrapperOf(source)
         IN  IF basename \notin pool
             THEN ResolveLoop(Tail(sources), pool \cup {basename},
                              Append(resolved, source), wrappers)
             ELSE ResolveLoop(Tail(sources), pool \cup {wr.name},
                              Append(resolved, wr.path),
                              Append(wrappers, <<wr.path, wr.include>>))

resolve_basename_collisions(sources, existing_basenames) ==
    ResolveLoop(sources, existing_basenames, <<>>, <<>>)

(***************************************************************************)
(* Matching of the scripts' regular expressions on token sequences.        *)
(***************************************************************************)
CM   == <<"cm">>
SEMI == <<"semi">>
LP   == <<"lp">>
RP   == <<"rp">>
LBK  == <<"lbk">>
RBK  == <<"rbk">>
EQ   == <<"eq">>
Str(t) == <<"s", t>>

\* \s of the regular expressions
IsSpace(tok) == tok \in {NL, CR, FF, SP}

AllSpace(text, a, b) == \A k \in a..b : IsSpace(text[k])

\* ^\s* under re.MULTILINE can end just before index i: only white space
\* lies between i and a start of line
AtLineStart(text, i) ==
    \E p \in 1..i : AllSpace(text, p, i - 1) /\ (p = 1 \/ text[p - 1] = NL)

\* index of the first token at or after i that is not white space
RECURSIVE SkipSpace(_, _)
SkipSpace(text, i) ==
    IF i > Len(text) \/ ~IsSpace(text[i]) THEN i ELSE SkipSpace(text, i + 1)

\* what may stand between two lexemes of a pattern, from index at up to the
\* index j of the next lexeme: \s* (AnySpace), \s+ (SomeSpace), \s*\n\s*
\* (FeedSpace) or nothing (NoSpace)
AnySpace  == "any"
SomeSpace == "some"
FeedSpace == "feed"
NoSpace   == "none"

GapOk(text, at, j, gap) ==
    CASE gap = AnySpace  -> TRUE
      [] gap = SomeSpace -> j > at
      [] gap = FeedSpace -> \E k \in at..(j - 1) : text[k] = NL
      [] gap = NoSpace   -> j = at

\* the lexemes matched from index at on, gaps[k] standing before lexemes[k]:
\* the index just past the match, 0 when there is none
RECURSIVE MatchLex(_, _, _, _)
MatchLex(text, at, lexemes, gaps) ==
    IF lexemes = <<>> THEN at
    ELSE IF SkipSpace(text, at) > Len(text) THEN 0
    ELSE IF text[SkipSpace(text, at)] # Head(lexemes) THEN 0
    ELSE IF ~GapOk(text, at, SkipSpace(text, at), Head(gaps)) THEN 0
    ELSE MatchLex(text, SkipSpace(text, at) + 1, Tail(lexemes), Tail(gaps))

\* re.search of such a pattern from index from on: where the leftmost match
\* starts, 0 when there is none
SearchLex(text, from, lexemes, gaps) ==
    IF \E i \in from..Len(text) : text[i] = lexemes[1] /\ MatchLex(text, i, lexemes, gaps) # 0
    THEN CHOOSE i \in from..Len(text) :
             /\ text[i] = lexemes[1] /\ MatchLex(text, i, lexemes, gaps) # 0
             /\ \A k \in from..(i - 1) :
                    ~(text[k] = lexemes[1] /\ MatchLex(text, k, lexemes, gaps) # 0)
    ELSE 0

\* index of the last line feed of the white space that starts at index i,
\* 0 when that white space holds none: where \s*\n ends
LastFeed(text, i) ==
    IF \E k \in i..(SkipSpace(text, i) - 1) : text[k] = NL
    THEN CHOOSE k \in i..(SkipSpace(text, i) - 1) :
             text[k] = NL /\ \A m \in (k + 1)..(SkipSpace(text, i) - 1) : text[m] # NL
    ELSE 0

(***************************************************************************)
(* config_components.h patching.                                           *)
(***************************************************************************)
\* the first flags of the catalog
CONFIG_FLAGS == <<"CONFIG_HEVC_DECODER", "CONFIG_AC3_DECODER">>

\* (^\s*#define\s+<flag>\s+)0(\b.*$) matches with its 0 at index z
DefineZeroAt(text, flag, z) ==
    /\ text[z] = W("0")
    /\ \E d \in 1..(z - 1) :
           /\ text[d] = W("#define")
           /\ AtLineStart(text, d)
           /\ MatchLex(text, d, <<W("#define"), W(flag), W("0")>>,
                       <<NoSpace, SomeSpace, SomeSpace>>) = z + 1

\* pattern.subn for one flag
SubnFlag(text, flag) ==
    [text  |-> [i \in 1..Len(text) |->
                   IF DefineZeroAt(text, flag, i) THEN W("1") ELSE text[i]],
     count |-> Cardinality({i \in 1..Len(text) : DefineZeroAt(text, flag, i)})]

RECURSIVE ConfigLoop(_, _, _)
ConfigLoop(flags, patched, enabled_count) ==
    IF flags = <<>> THEN [text |-> patched, count |-> enabled_count]
    ELSE The({ ConfigLoop(Tail(flags), r.text, enabled_count + r.count) :
               r \in {SubnFlag(patched, Head(flags))} })

patch_config_components(text) == ConfigLoop(CONFIG_FLAGS, text, 0)

(***************************************************************************)
(* codec / parser / demuxer list patching.  A list file is a sequence of   *)
(* tokens: the line feed, the carriage return, a space, a comma, a         *)
(* semicolon, and words (an entry, NULL, anything else).                   *)
(***************************************************************************)
NULL == W("NULL")

\* ^\s*<entry>\s*,\s*$ under re.MULTILINE matches with the entry at index e:
\* ^ is the start of the text or the place after a line feed, $ the end of the
\* text or the place before a line feed
EntryLineAt(text, entry, e) ==
    /\ text[e] = W(entry)
    /\ \E p \in 1..e : AllSpace(text, p, e - 1) /\ (p = 1 \/ text[p - 1] = NL)
    /\ \E c \in (e + 1)..Len(text) :
           /\ text[c] = CM
           /\ AllSpace(text, e + 1, c - 1)
           /\ \E q \in c..Len(text) :
                  AllSpace(text, c + 1, q) /\ (q = Len(text) \/ text[q + 1] = NL)

EntryPresent(text, entry) == \E e \in 1..Len(text) : EntryLineAt(text, entry, e)

\* str.splitlines(keepends=True): a line ends with \n, \r\n, a lone \r or a
\* form feed
LineBreakEnd(text, i) ==
    IF text[i] \in {NL, FF} THEN i
    ELSE IF text[i] = CR THEN (IF i < Len(text) /\ text[i + 1] = NL THEN i + 1 ELSE i)
    ELSE 0

RECURSIVE SplitLoop(_, _, _)
SplitLoop(text, start, i) ==
    IF i > Len(text)
    THEN (IF start > Len(text) THEN <<>> ELSE <<SubSeq(text, start, Len(text))>>)
    ELSE IF LineBreakEnd(text, i) = 0 THEN SplitLoop(text, start, i + 1)
    ELSE <<SubSeq(text, start, LineBreakEnd(text, i))>>
             \o SplitLoop(text, LineBreakEnd(text, i) + 1, LineBreakEnd(text, i) + 1)

splitlines(text) == SplitLoop(text, 1, 1)

\* ^\s*NULL\s*[,}; ]*(?://.*)?$ on the line without its line break: after
\* NULL come white space, then commas, braces, semicolons and spaces, then
\* nothing or a comment
IsNullLine(line) ==
    LET stripped == RStrip(line, {CR, NL})
    IN  \E n \in 1..Len(stripped) :
            /\ stripped[n] = NULL
            /\ AllSpace(stripped, 1, n - 1)
            /\ \E m \in n..Len(stripped) :
                   /\ AllSpace(stripped, n + 1, m)
                   /\ \E c \in (m + 1)..(Len(stripped) + 1) :
                          /\ \A k \in (m + 1)..(c - 1) : stripped[k] \in {SP, CM, SEMI, RB}
                          /\ (c = Len(stripped) + 1 \/ stripped[c] = CMT)

\* index of the first NULL line, 0 when there is none
NullIndex(lines) ==
    IF \E i \in 1..Len(lines) : IsNullLine(lines[i])
    THEN CHOOSE i \in 1..Len(lines) :
             IsNullLine(lines[i]) /\ \A k \in 1..(i - 1) : ~IsNullLine(lines[k])
    ELSE 0

\* ^(\s*)NULL\b on the NULL line
NullIndent(null_line) ==
    SubSeq(null_line, 1, (CHOOSE n \in 1..Len(null_line) : null_line[n] = NULL) - 1)

MissingEntries(text, entries) == SelectSeq(entries, LAMBDA entry : ~EntryPresent(text, entry))

RECURSIVE InsertedLines(_, _, _)
InsertedLines(indent, entries, newline) ==
    IF entries = <<>> THEN <<>>
    ELSE <<indent \o <<W(Head(entries)), CM>> \o newline>>
             \o InsertedLines(indent, Tail(entries), newline)

InsertAtNull(text, missing_entries, lines, null_index) ==
    IF null_index = 0
    THEN [text |-> text, added |-> 0, raised |-> TRUE]
    ELSE [text   |-> Concat(SubSeq(lines, 1, null_index - 1)
                            \o InsertedLines(NullIndent(lines[null_index]),
                                             missing_entries, detect_newline(text))
                            \o SubSeq(lines, null_index, Len(lines))),
          added  |-> Len(missing_entries),
          raised |-> FALSE]

\* raised stands for the RuntimeError of a text without a NULL line
patch_list_file(text, entries) ==
    The({ IF missing_entries = <<>>
          THEN [text |-> text, added |-> 0, raised |-> FALSE]
          ELSE The({ InsertAtNull(text, missing_entries, lines, NullIndex(lines)) :
                     lines \in {splitlines(text)} }) :
          missing_entries \in {MissingEntries(text, entries)} })

(***************************************************************************)
(* Chromium media patching.  A C++ text is a sequence of tokens: the line  *)
(* feed, a space, ( ) ; a string, a comment up to the end of its line, and *)
(* words, a case label with its colon being one word.                      *)
(***************************************************************************)
\* [ \t]* from index i on: the index of the first token that is not a space
RECURSIVE SkipBlank(_, _)
SkipBlank(text, i) ==
    IF i <= Len(text) /\ text[i] = SP THEN SkipBlank(text, i + 1) ELSE i

\* [ \t]* in front of index i: where the spaces that end there start
RECURSIVE IndentStart(_, _)
IndentStart(text, i) ==
    IF i > 1 /\ text[i - 1] = SP THEN IndentStart(text, i - 1) ELSE i

\* text with the tokens from index a up to index b - 1 replaced by new
Splice(text, a, b, new) == SubSeq(text, 1, a - 1) \o new \o SubSeq(text, b, Len(text))

\* some token of the text is tok
Has(text, tok) == \E i \in 1..Len(text) : text[i] = tok

ReturnTrue == <<W("return"), SP, W("true"), SEMI>>

\* case\s+<label>:\s*\n\s*case\s+<label>: ... for a run of labels
CaseLex(labels) == Concat([k \in 1..Len(labels) |-> <<W("case"), W(labels[k])>>])

CaseGaps(labels) ==
    [k \in 1..(2 * Len(labels)) |->
        IF k = 1 THEN NoSpace ELSE IF k % 2 = 0 THEN SomeSpace ELSE FeedSpace]

\* the index just past the labels' cases when they match from index i on
CasesEnd(text, i, labels) == MatchLex(text, i, CaseLex(labels), CaseGaps(labels))

\* \s*\n\s*return\s+<guard>: the guard's lexemes may stand apart
GuardGaps(guard) ==
    [k \in 1..Len(guard) |->
        IF k = 1 THEN FeedSpace ELSE IF k = 2 THEN SomeSpace ELSE AnySpace]

\* the index just past the cases and their guarded return when the pattern
\* matches from index i on, 0 when it does not
GuardedEnd(text, i, labels, guard) ==
    IF text[i] # W("case") \/ CasesEnd(text, i, labels) = 0 THEN 0
    ELSE MatchLex(text, CasesEnd(text, i, labels), guard, GuardGaps(guard))

\* the first of the label runs whose pattern matches at index i, <<>> when
\* none does
MatchingLabels(text, i, runs, guard) ==
    IF \E k \in 1..Len(runs) : GuardedEnd(text, i, runs[k], guard) # 0
    THEN runs[CHOOSE k \in 1..Len(runs) :
                  /\ GuardedEnd(text, i, runs[k], guard) # 0
                  /\ \A m \in 1..(k - 1) : GuardedEnd(text, i, runs[m], guard) = 0]
    ELSE <<>>

\* where the leftmost match of the pattern at or after index from starts, 0
\* when there is none
NextGuarded(text, from, runs, guard) ==
    IF \E i \in from..Len(text) : MatchingLabels(text, i, runs, guard) # <<>>
    THEN CHOOSE i \in from..Len(text) :
             /\ MatchingLabels(text, i, runs, guard) # <<>>
             /\ \A k \in from..(i - 1) : MatchingLabels(text, k, runs, guard) = <<>>
    ELSE 0

\* the match at index i rewritten: the text, and the index just past the
\* return put in
RewriteGuarded(text, i, labels, guard) ==
    The({ [text |-> Splice(text, ret, GuardedEnd(text, i, labels, guard), ReturnTrue),
           next |-> ret + Len(ReturnTrue)] :
          ret \in {SkipSpace(text, CasesEnd(text, i, labels))} })

\* pattern.subn(r"\g<cases>return true;", text), scanning from index from on:
\* the text rewritten and the number of matches
RECURSIVE SubnGuarded(_, _, _, _, _)
SubnGuarded(text, from, runs, guard, count) ==
    The({ IF i = 0 THEN [text |-> text, count |-> count]
          ELSE The({ SubnGuarded(rw.text, rw.next, runs, guard, count + 1) :
                     rw \in {RewriteGuarded(text, i, MatchingLabels(text, i, runs, guard),
                                            guard)} }) :
          i \in {NextGuarded(text, from, runs, guard)} })

DtsRuns ==
    << <<"AudioCodec::kDTS:", "AudioCodec::kDTSXP2:", "AudioCodec::kDTSE:">>,
       <<"AudioCodec::kDTS:", "AudioCodec::kDTSXP2:">>,
       <<"AudioCodec::kDTS:", "AudioCodec::kDTSE:">>,
       <<"AudioCodec::kDTS:">> >>

DtsGuard ==
    <<W("return"), W("BUILDFLAG"), LP, W("ENABLE_PLATFORM_DTS_AUDIO"), RP, SEMI>>

Ac3Runs == << <<"AudioCodec::kAC3:", "AudioCodec::kEAC3:">> >>

Ac3Guard == <<W("return"), W("IsDecoderDolbyAc3Eac3Supported"), LP, W("type"), RP, SEMI>>

HevcRuns == << <<"VideoCodec::kHEVC:">> >>

HevcGuard == <<W("return"), W("IsDecoderHevcProfileSupported"), LP, W("type"), RP, SEMI>>

\* re.search of case\s+<label>: where the leftmost match starts, else 0
SearchCase(text, label) ==
    SearchLex(text, 1, <<W("case"), W(label)>>, <<NoSpace, SomeSpace>>)

\* the text with the lines put in front of the first ([ \t]*)(case\s+<label>),
\* each line behind that indent; at is where that case stands
InsertBeforeCase(text, at, lines) ==
    LET start  == IndentStart(text, at)
        indent == SubSeq(text, start, at - 1)
    IN  Splice(text, start, start,
               Concat([k \in 1..Len(lines) |-> indent \o lines[k]]))

CaseLine(label) == <<W("case"), SP, W(label), NL>>

AudioFallback ==
    <<CaseLine("AudioCodec::kAC3:"), CaseLine("AudioCodec::kEAC3:"),
      CaseLine("AudioCodec::kDTS:"), CaseLine("AudioCodec::kDTSXP2:")>>

HevcFallback == <<CaseLine("VideoCodec::kHEVC:"), <<SP, SP>> \o ReturnTrue \o <<NL>>>>

Raised(text) == [text |-> text, changed |-> <<>>, raised |-> TRUE]

\* the fallback insertion of the HEVC case
SupportedHevcFallback(text, changed) ==
    IF SearchCase(text, "VideoCodec::kHEVC:") # 0
    THEN [text |-> text, changed |-> changed, raised |-> FALSE]
    ELSE IF SearchCase(text, "VideoCodec::kH264:") = 0 THEN Raised(text)
    ELSE [text    |-> InsertBeforeCase(text, SearchCase(text, "VideoCodec::kH264:"),
                                       HevcFallback),
          changed |-> Append(changed, <<"supported_types.cc: inserted HEVC fallback case">>),
          raised  |-> FALSE]

\* the fallback insertion of the audio cases, then that of the HEVC case
SupportedFallbacks(text, changed) ==
    IF SearchCase(text, "AudioCodec::kAC3:") # 0
    THEN SupportedHevcFallback(text, changed)
    ELSE IF SearchCase(text, "AudioCodec::kAAC:") = 0 THEN Raised(text)
    ELSE SupportedHevcFallback(
             InsertBeforeCase(text, SearchCase(text, "AudioCodec::kAAC:"), AudioFallback),
             Append(changed,
                    <<"supported_types.cc: inserted AC3/EAC3/DTS/DTSXP2 fallback cases">>))

\* the entry of the changes for a return override made count times
Override(name, r) ==
    IF r.count = 0 THEN <<>>
    ELSE << <<"supported_types.cc: " \o name \o " return override", r.count>> >>

\* patch_supported_types; raised stands for its RuntimeError
patch_supported_types(text) ==
    IF ~(Has(text, W("IsDefaultSupportedAudioType"))
           \/ Has(text, W("IsDefaultDecoderSupportedAudioType")))
    THEN Raised(text)
    ELSE IF ~(Has(text, W("IsDefaultSupportedVideoType"))
                \/ Has(text, W("IsDefaultDecoderSupportedVideoType")))
    THEN Raised(text)
    ELSE The({ The({ The({
            SupportedFallbacks(hevc.text, Override("DTS", dts) \o Override("AC3/EAC3", ac3)
                                              \o Override("HEVC", hevc)) :
            hevc \in {SubnGuarded(ac3.text, 1, HevcRuns, HevcGuard, 0)} }) :
            ac3 \in {SubnGuarded(dts.text, 1, Ac3Runs, Ac3Guard, 0)} }) :
            dts \in {SubnGuarded(text, 1, DtsRuns, DtsGuard, 0)} })

(***************************************************************************)
(* ffmpeg_common.cc                                                        *)
(***************************************************************************)
\* the index of the last line feed of (case\s+<label>\s*\n\s*return\s+<id>;\s*\n)
\* matched from index i on, 0 when it does not match there
MappingEnd(text, i, label, id) ==
    IF text[i] # W("case") THEN 0
    ELSE IF MatchLex(text, i, <<W("case"), W(label), W("return"), W(id), SEMI>>,
                     <<NoSpace, SomeSpace, FeedSpace, SomeSpace, NoSpace>>) = 0 THEN 0
    ELSE LastFeed(text, MatchLex(text, i, <<W("case"), W(label), W("return"), W(id), SEMI>>,
                                 <<NoSpace, SomeSpace, FeedSpace, SomeSpace, NoSpace>>))

\* the end of the leftmost such mapping block, 0 when the text has none
FirstMappingEnd(text, label, id) ==
    IF \E i \in 1..Len(text) : MappingEnd(text, i, label, id) # 0
    THEN MappingEnd(text, CHOOSE i \in 1..Len(text) :
                              /\ MappingEnd(text, i, label, id) # 0
                              /\ \A k \in 1..(i - 1) : MappingEnd(text, k, label, id) = 0,
                    label, id)
    ELSE 0

\* "    case <label>\n      return <id>;\n"
MappingLines(label, id) ==
    <<SP, SP, SP, SP, W("case"), SP, W(label), NL,
      SP, SP, SP, SP, SP, SP, W("return"), SP, W(id), SEMI, NL>>

AudioMappings ==
    MappingLines("AudioCodec::kAC3:", "AV_CODEC_ID_AC3")
        \o MappingLines("AudioCodec::kEAC3:", "AV_CODEC_ID_EAC3")
        \o MappingLines("AudioCodec::kDTS:", "AV_CODEC_ID_DTS")

HevcMapping == MappingLines("VideoCodec::kHEVC:", "AV_CODEC_ID_HEVC")

\* one step of the patcher on its state so far, [text, changed, raised]
Step(st, text, message) ==
    [text |-> text, changed |-> Append(st.changed, <<message>>), raised |-> FALSE]

\* the codec ID mappings after the block of `label`, when `wanted` holds
InsertMappings(st, wanted, label, id, lines, message) ==
    IF st.raised \/ ~wanted THEN st
    ELSE The({ IF end = 0 THEN Raised(st.text)
               ELSE Step(st, Splice(st.text, end + 1, end + 1, lines), message) :
               end \in {FirstMappingEnd(st.text, label, id)} })

\* pattern.subn(new, text, count=1) of a pattern without line structure, when
\* `wanted` holds; nothing happens when the pattern is not found
ReplaceFirst(st, wanted, lexemes, gaps, new, message) ==
    IF st.raised \/ ~wanted THEN st
    ELSE The({ IF at = 0 THEN st
               ELSE Step(st, Splice(st.text, at, MatchLex(st.text, at, lexemes, gaps), new),
                         message) :
               at \in {SearchLex(st.text, 1, lexemes, gaps)} })

\* the strings of the model's texts that hold ,ac3 ,eac3 and ,dca
HoldsAudioCodecs(text) == Has(text, Str(",aac,ac3,eac3,dca"))

CommonIds(st) ==
    InsertMappings(st,
                   ~Has(st.text, W("AV_CODEC_ID_AC3")) \/ ~Has(st.text, W("AV_CODEC_ID_EAC3"))
                       \/ ~Has(st.text, W("AV_CODEC_ID_DTS")),
                   "AudioCodec::kAAC:", "AV_CODEC_ID_AAC", AudioMappings,
                   "ffmpeg_common.cc: inserted AC3/EAC3/DTS codec ID mappings")

CommonHevc(st) ==
    InsertMappings(st, ~Has(st.text, W("AV_CODEC_ID_HEVC")),
                   "VideoCodec::kH264:", "AV_CODEC_ID_H264", HevcMapping,
                   "ffmpeg_common.cc: inserted HEVC codec ID mapping")

CommonVideo(st) ==
    ReplaceFirst(st, ~Has(st.text, Str("h264,hevc")),
                 <<W("return"), Str("h264"), SEMI>>, <<NoSpace, SomeSpace, AnySpace>>,
                 <<W("return"), SP, Str("h264,hevc"), SEMI>>,
                 "ffmpeg_common.cc: added hevc to GetAllowedVideoDecoders allowlist")

CommonAudio(st) ==
    ReplaceFirst(st, ~HoldsAudioCodecs(st.text),
                 <<W("#define"), W("EXTRA_CODECS"), Str(",aac")>>,
                 <<NoSpace, SomeSpace, SomeSpace>>,
                 <<W("#define"), SP, W("EXTRA_CODECS"), SP, Str(",aac,ac3,eac3,dca")>>,
                 "ffmpeg_common.cc: added ac3/eac3/dca to GetAllowedAudioDecoders allowlist")

Unpatched(text) == [text |-> text, changed |-> <<>>, raised |-> FALSE]

\* patch_ffmpeg_common; raised stands for its RuntimeError
patch_ffmpeg_common(text) ==
    The({ The({ The({ CommonAudio(CommonVideo(hevc)) :
        hevc \in {CommonHevc(ids)} }) : ids \in {CommonIds(st)} }) : st \in {Unpatched(text)} })

(***************************************************************************)
(* ffmpeg_video_decoder.cc                                                 *)
(***************************************************************************)
IsVideoLabel(tok) ==
    tok \in {W("VideoCodec::kHEVC:"), W("VideoCodec::kH264:"), W("VideoCodec::kTheora:"),
             W("VideoCodec::kVP8:")}

\* (?://[^\n]*\n\s*)*NOTREACHED from index c on
RECURSIVE CommentsThenNotReached(_, _)
CommentsThenNotReached(text, c) ==
    /\ c <= Len(text)
    /\ \/ text[c] = W("NOTREACHED")
       \/ /\ text[c] = CMT
          /\ c < Len(text) /\ text[c + 1] = NL
          /\ CommentsThenNotReached(text, SkipSpace(text, c + 1))

\* (?:[ \t]*case\s+VideoCodec::\w+:\s*\n)*[ \t]*(?://[^\n]*\n\s*)*NOTREACHED from
\* index j on
RECURSIVE LeadsToNotReached(_, _)
LeadsToNotReached(text, j) ==
    \/ CommentsThenNotReached(text, SkipBlank(text, j))
    \/ /\ SkipBlank(text, j) + 2 <= Len(text)
       /\ text[SkipBlank(text, j)] = W("case")
       /\ IsSpace(text[SkipBlank(text, j) + 1])
       /\ SkipSpace(text, SkipBlank(text, j) + 1) <= Len(text)
       /\ IsVideoLabel(text[SkipSpace(text, SkipBlank(text, j) + 1)])
       /\ LastFeed(text, SkipSpace(text, SkipBlank(text, j) + 1) + 1) # 0
       /\ LeadsToNotReached(text,
                            LastFeed(text, SkipSpace(text, SkipBlank(text, j) + 1) + 1) + 1)

\* the index of the last line feed of (\n)([ \t]*case\s+VideoCodec::kHEVC:\s*\n)
\* matched from the line feed at index i on with NOTREACHED ahead, else 0
HevcLineEnd(text, i) ==
    IF text[i] # NL \/ SkipBlank(text, i + 1) > Len(text) THEN 0
    ELSE IF MatchLex(text, SkipBlank(text, i + 1), <<W("case"), W("VideoCodec::kHEVC:")>>,
                     <<NoSpace, SomeSpace>>) = 0 THEN 0
    ELSE The({ IF end # 0 /\ LeadsToNotReached(text, end + 1) THEN end ELSE 0 :
               end \in {LastFeed(text, MatchLex(text, SkipBlank(text, i + 1),
                                                <<W("case"), W("VideoCodec::kHEVC:")>>,
                                                <<NoSpace, SomeSpace>>))} })

\* notreached_hevc.subn(r"\1", text, count=1)
RemoveNotReachedHevc(st) ==
    IF ~\E i \in 1..Len(st.text) : HevcLineEnd(st.text, i) # 0 THEN st
    ELSE The({ Step(st, Splice(st.text, i + 1, HevcLineEnd(st.text, i) + 1, <<>>),
                    "ffmpeg_video_decoder.cc: removed HEVC from NOTREACHED group") :
               i \in {CHOOSE i \in 1..Len(st.text) :
                          /\ HevcLineEnd(st.text, i) # 0
                          /\ \A k \in 1..(i - 1) : HevcLineEnd(st.text, k) = 0} })

\* the HEVC case put in front of the H264 case unless it stands there
InsertMultithreadHevc(st) ==
    IF SearchLex(st.text, 1,
                 <<W("case"), W("VideoCodec::kHEVC:"), W("case"), W("VideoCodec::kH264:")>>,
                 <<NoSpace, SomeSpace, FeedSpace, SomeSpace>>) # 0
    THEN st
    ELSE IF SearchCase(st.text, "VideoCodec::kH264:") = 0 THEN Raised(st.text)
    ELSE Step(st, InsertBeforeCase(st.text, SearchCase(st.text, "VideoCodec::kH264:"),
                                   <<CaseLine("VideoCodec::kHEVC:")>>),
              "ffmpeg_video_decoder.cc: inserted HEVC into multithread branch")

\* patch_ffmpeg_video_decoder; raised stands for its RuntimeError
patch_ffmpeg_video_decoder(text) ==
    The({ InsertMultithreadHevc(removed) :
          removed \in {RemoveNotReachedHevc(Unpatched(text))} })

(***************************************************************************)
(* ffmpeg_glue.cc                                                          *)
(***************************************************************************)
PushBack(demuxer) == <<W("allowed_demuxers.push_back"), LP, Str(demuxer), RP, SEMI>>

demuxers_to_add == <<"ac3", "eac3", "dts">>

\* f'push_back("{d}")' in text
HasPushBack(text, demuxer) ==
    Contains(text, <<W("allowed_demuxers.push_back"), LP, Str(demuxer), RP>>)

\* the index of the last line feed of
\* (^[ \t]*allowed_demuxers\.push_back\(\s*"aac"\s*\)\s*;\s*\n) matched from the
\* start of line p on, 0 when it does not match there
AacPushEnd(text, p) ==
    IF ~(p = 1 \/ text[p - 1] = NL) \/ SkipBlank(text, p) > Len(text) THEN 0
    ELSE IF MatchLex(text, SkipBlank(text, p), PushBack("aac"),
                     <<NoSpace, NoSpace, AnySpace, AnySpace, AnySpace>>) = 0 THEN 0
    ELSE LastFeed(text, MatchLex(text, SkipBlank(text, p), PushBack("aac"),
                                 <<NoSpace, NoSpace, AnySpace, AnySpace, AnySpace>>))

PushLines(indent, missing) ==
    Concat([k \in 1..Len(missing) |-> indent \o PushBack(missing[k]) \o <<NL>>])

\* "a/b/c" of the demuxers inserted
RECURSIVE Slashed(_)
Slashed(names) ==
    IF Len(names) = 1 THEN names[1] ELSE names[1] \o "/" \o Slashed(Tail(names))

InsertPushBacks(text, missing, p) ==
    [text    |-> Splice(text, AacPushEnd(text, p) + 1, AacPushEnd(text, p) + 1,
                        PushLines(SubSeq(text, p, SkipBlank(text, p) - 1), missing)),
     changed |-> << <<"ffmpeg_glue.cc: inserted " \o Slashed(missing)
                        \o " demuxer allowlist entries">> >>,
     raised  |-> FALSE]

\* patch_ffmpeg_glue_demuxers; raised stands for its RuntimeError
patch_ffmpeg_glue_demuxers(text) ==
    The({ IF missing = <<>> THEN Unpatched(text)
          ELSE IF ~\E p \in 1..Len(text) : AacPushEnd(text, p) # 0 THEN Raised(text)
          ELSE InsertPushBacks(text, missing,
                               CHOOSE p \in 1..Len(text) :
                                   /\ AacPushEnd(text, p) # 0
                                   /\ \A k \in 1..(p - 1) : AacPushEnd(text, k) = 0) :
          missing \in {SelectSeq(demuxers_to_add, LAMBDA d : ~HasPushBack(text, d))} })

(***************************************************************************)
(* BUILD.gn patching.                                                      *)
(***************************************************************************)
\* a file that is not there
Absent == << <<"absent">> >>

\* the first index at or after from where tok stands, 0 when there is none
IndexOf(text, tok, from) ==
    IF \E i \in from..Len(text) : text[i] = tok
    THEN CHOOSE i \in from..Len(text) : text[i] = tok /\ \A k \in from..(i - 1) : text[k] # tok
    ELSE 0

TargetLex == <<W("target"), LP, W("link_target_type"), CM, Str("ffmpeg_internal"), RP>>

TargetGaps == <<NoSpace, AnySpace, AnySpace, AnySpace, AnySpace, AnySpace>>

IncludeLex == <<W("include_dirs"), EQ, LBK>>

IncludeGaps == <<NoSpace, AnySpace, AnySpace>>

\* ^(?P<indent>\s*)"\."\s*,\s*\n matches in block from index p, a start of
\* line, on
DotMatchAt(block, p) ==
    /\ (p = 1 \/ block[p - 1] = NL)
    /\ SkipSpace(block, p) <= Len(block)
    /\ MatchLex(block, SkipSpace(block, p), <<Str("."), CM>>, <<NoSpace, AnySpace>>) # 0
    /\ LastFeed(block, MatchLex(block, SkipSpace(block, p), <<Str("."), CM>>, <<NoSpace, AnySpace>>)) # 0

\* the text with "libavcodec" listed after the "." entry of the block that
\* opens at block_open and closes at block_close
InsertLibavcodec(text, block_open, block_close) ==
    LET block == SubSeq(text, block_open, block_close)
    IN  IF ~\E p \in 1..Len(block) : DotMatchAt(block, p)
        THEN [text |-> text, write |-> FALSE, message |-> "WARN: no '.' entry"]
        ELSE LET p   == CHOOSE q \in 1..Len(block) :
                            DotMatchAt(block, q) /\ \A k \in 1..(q - 1) : ~DotMatchAt(block, k)
                 dot == SkipSpace(block, p)
                 end == LastFeed(block, MatchLex(block, dot, <<Str("."), CM>>, <<NoSpace, AnySpace>>))
                 insert_at == block_open + end - 1
             IN  [text    |-> SubSeq(text, 1, insert_at)
                                \o SubSeq(block, p, dot - 1) \o <<Str("libavcodec"), CM, NL>>
                                \o SubSeq(text, insert_at + 1, Len(text)),
                  write   |-> TRUE,
                  message |-> "BUILD.gn: added 'libavcodec'"]

\* patch_ffmpeg_build_gn on the text of BUILD.gn, Absent when the file is not
\* there: the message returned, and the text to write when write holds
patch_ffmpeg_build_gn(text) ==
    IF text = Absent
    THEN [text |-> text, write |-> FALSE, message |-> "WARN: BUILD.gn not found"]
    ELSE IF Contains(text, <<Str("libavcodec")>>)
    THEN [text |-> text, write |-> FALSE, message |-> ""]
    ELSE IF SearchLex(text, 1, TargetLex, TargetGaps) = 0
    THEN [text |-> text, write |-> FALSE, message |-> "WARN: no ffmpeg_internal target"]
    ELSE The({
        IF SearchLex(text, search_start, IncludeLex, IncludeGaps) = 0
        THEN [text |-> text, write |-> FALSE, message |-> "WARN: no include_dirs"]
        ELSE The({
            IF IndexOf(text, RBK, block_open) = 0
            THEN [text |-> text, write |-> FALSE, message |-> "WARN: include_dirs not closed"]
            ELSE InsertLibavcodec(text, block_open, IndexOf(text, RBK, block_open)) :
            block_open \in {MatchLex(text, SearchLex(text, search_start, IncludeLex, IncludeGaps),
                                     IncludeLex, IncludeGaps) - 1} }) :
        search_start \in {MatchLex(text, SearchLex(text, 1, TargetLex, TargetGaps),
                                   TargetLex, TargetGaps)} })

(***************************************************************************)
(* ffmpeg_generated.gni patching.                                          *)
(***************************************************************************)
\* a variant that takes the first closing brace, whatever the nesting
find_block_end_First(text, opening_brace_index) ==
    IF \E k \in opening_brace_index..Len(text) : text[k] = RB
    THEN 1 + CHOOSE k \in opening_brace_index..Len(text) :
                 text[k] = RB /\ \A j \in opening_brace_index..(k - 1) : text[j] # RB
    ELSE 0

\* find_block_end: the position just past the brace that brings depth back to
\* zero, scanning from opening_brace_index; 0 if depth never returns to zero
RECURSIVE BlockEndLoop(_, _, _)
BlockEndLoop(text, index, depth) ==
    IF index > Len(text) THEN 0
    ELSE IF text[index] = LB THEN BlockEndLoop(text, index + 1, depth + 1)
    ELSE IF text[index] = RB
         THEN IF depth - 1 = 0 THEN index + 1
              ELSE BlockEndLoop(text, index + 1, depth - 1)
    ELSE BlockEndLoop(text, index + 1, depth)

find_block_end(text, opening_brace_index) == BlockEndLoop(text, opening_brace_index, 0)

\* filter_available: the sources whose files exist, and a warning for each other
filter_available(sources, files) ==
    [available |-> SelectSeq(sources, LAMBDA s : s \in files),
     warnings  |-> SelectSeq(sources, LAMBDA s : s \notin files)]

\* filter_not_in_gni: the sources whose quoted path does not occur in the text
filter_not_in_gni(sources, gni_text) ==
    SelectSeq(sources, LAMBDA s : ~Contains(gni_text, <<Q(s)>>))

\* _format_source_list: the lines of one `var += [ ... ]` statement
RECURSIVE SourceLines(_, _)
SourceLines(indent, sources) ==
    IF sources = <<>> THEN <<>>
    ELSE << <<W(indent \o "  "), Q(Head(sources)), W(",")>> >>
            \o SourceLines(indent, Tail(sources))

format_source_list(indent, var_name, sources) ==
    << <<W(indent \o var_name \o " += [")>> >>
        \o SourceLines(indent, sources)
        \o << <<W(indent \o "]")>> >>

\* build_managed_gni_block
build_managed_gni_block(c_sources, x86_c_sources, x86_asm_sources, aarch64_c_sources, aarch64_gas_sources, newline) ==
    LET head == << GNI_MARKER, <<W("if (ffmpeg_branding) "), LB>> >>
        plain == IF c_sources # <<>>
                 THEN format_source_list("  ", "ffmpeg_c_sources", c_sources)
                 ELSE <<>>
        x86 == IF x86_c_sources # <<>> \/ x86_asm_sources # <<>>
               THEN << <<>>,
                       <<W("  if (current_cpu == x64 ||")>>,
                       <<W("      (is_win && current_cpu == x86) ||")>>,
                       <<W("      (use_linux_config && current_cpu == x86)) "), LB>> >>
                    \o (IF x86_c_sources # <<>>
                        THEN format_source_list("    ", "ffmpeg_c_sources", x86_c_sources)
                        ELSE <<>>)
                    \o (IF x86_asm_sources # <<>>
                        THEN format_source_list("    ", "ffmpeg_asm_sources", x86_asm_sources)
                        ELSE <<>>)
                    \o << <<W("  "), RB>> >>
               ELSE <<>>
        arm == IF aarch64_c_sources # <<>> \/ aarch64_gas_sources # <<>>
               THEN << <<>>,
                       <<W("  if (current_cpu == arm64 || current_cpu == arm64e) "), LB>> >>
                    \o (IF aarch64_c_sources # <<>>
                        THEN format_source_list("    ", "ffmpeg_c_sources", aarch64_c_sources)
                        ELSE <<>>)
                    \o (IF aarch64_gas_sources # <<>>
                        THEN format_source_list("    ", "ffmpeg_gas_sources", aarch64_gas_sources)
                        ELSE <<>>)
                    \o << <<W("  "), RB>> >>
               ELSE <<>>
        lines == head \o plain \o x86 \o arm \o << <<RB>> >>
    IN  Join(lines, newline) \o newline

\* a faulty variant: an earlier managed block is left where it is
remove_managed_block_Keep(text) == text

\* remove_managed_block
remove_managed_block(text) ==
    LET marker_pos == Find(text, GNI_MARKER, 1)
        newline    == detect_newline(text)
        nl_at      == RFind(text, newline, marker_pos - 1)
        \* the number of elements before the marker's line
        line_start == IF nl_at = 0 THEN 0 ELSE nl_at + Len(newline) - 1
        brace_pos  == Find(text, <<LB>>, marker_pos)
        block_end  == find_block_end(text, brace_pos)
        before     == RStrip(SubSeq(text, 1, line_start), Range(newline))
        after      == LStrip(SubSeq(text, block_end, Len(text)), Range(newline))
    IN  IF marker_pos = 0 THEN text
        ELSE IF brace_pos = 0 THEN text
        ELSE IF block_end = 0 THEN text
        ELSE before \o newline \o after

\* The(S): the element of a one-element set.  { F(v) : v \in {e} } evaluates e
\* once and names its value v, as an assignment to a local does.

\* patch_ffmpeg_generated_gni from the block build on (lines 482-509)
PatchAppend(text, cleaned_text, warnings, existing_basenames, r1, r2, r3, x86_asm_sources, aarch64_gas_sources) ==
    LET all_wrappers == r1.wrappers \o r2.wrappers \o r3.wrappers
        total_added == Len(r1.resolved) + Len(r2.resolved) + Len(x86_asm_sources)
                           + Len(r3.resolved) + Len(aarch64_gas_sources)
        newline == detect_newline(cleaned_text)
        block == build_managed_gni_block(r1.resolved, r2.resolved, x86_asm_sources,
                                         r3.resolved, aarch64_gas_sources, newline)
        result == IF EndsWith(cleaned_text, newline \o newline)
                  THEN cleaned_text \o block
                  ELSE IF EndsWith(cleaned_text, newline)
                  THEN cleaned_text \o newline \o block
                  ELSE cleaned_text \o newline \o newline \o block
    IN  IF total_added = 0
        THEN [text |-> text, added |-> 0, warnings |-> warnings,
              wrappers |-> all_wrappers, cleaned |-> cleaned_text,
              resolved |-> <<>>, pool0 |-> existing_basenames]
        ELSE [text |-> result, added |-> total_added, warnings |-> warnings,
              wrappers |-> all_wrappers, cleaned |-> cleaned_text,
              resolved |-> r1.resolved \o r2.resolved \o r3.resolved,
              pool0 |-> existing_basenames]

\* patch_ffmpeg_generated_gni from the second filter on (lines 455-477): the
\* three resolver calls share one pool
PatchResolve(text, cleaned_text, warnings, existing_basenames, c_av, x86_c_av, x86_asm_av, aarch64_c_av, aarch64_gas_av) ==
    The({ The({ The({
        PatchAppend(text, cleaned_text, warnings, existing_basenames, r1, r2, r3,
                    filter_not_in_gni(x86_asm_av, cleaned_text),
                    filter_not_in_gni(aarch64_gas_av, cleaned_text))
        : r3 \in {resolve_basename_collisions(
                      filter_not_in_gni(aarch64_c_av, cleaned_text), r2.pool)} })
        : r2 \in {resolve_basename_collisions(
                      filter_not_in_gni(x86_c_av, cleaned_text), r1.pool)} })
        : r1 \in {resolve_basename_collisions(
                      filter_not_in_gni(c_av, cleaned_text), existing_basenames)} })

\* patch_ffmpeg_generated_gni, for the set `files` of source files on disk.
\* The result carries, beside the returned (text, added, warnings), the
\* wrapper specs handed to create_wrapper_files and the function's locals
\* cleaned_text, the resolved .c sources and the pool as first seeded.
patch_ffmpeg_generated_gni(text, files) ==
    LET fa_c     == filter_available(EXTRA_C_SOURCES, files)
        fa_x86c  == filter_available(EXTRA_X86_C_SOURCES, files)
        fa_x86a  == filter_available(EXTRA_X86_ASM_SOURCES, files)
        fa_armc  == filter_available(EXTRA_AARCH64_C_SOURCES, files)
        fa_armg  == filter_available(EXTRA_AARCH64_GAS_SOURCES, files)
        warnings == fa_c.warnings \o fa_x86c.warnings \o fa_x86a.warnings
                        \o fa_armc.warnings \o fa_armg.warnings
    IN  The({ The({
            PatchResolve(text, cleaned_text, warnings, existing_basenames,
                         fa_c.available, fa_x86c.available, fa_x86a.available,
                         fa_armc.available, fa_armg.available)
            : existing_basenames \in {get_gni_c_basenames(cleaned_text)} })
            : cleaned_text \in {remove_managed_block(text)} })

(***************************************************************************)
(* The descriptor under repeated rebuilds.  A rebuild is main's read of    *)
(* ffmpeg_generated.gni, patch_ffmpeg_generated_gni and the write of its   *)
(* result.                                                                 *)
(*   SpecGni:   any descriptor text, the files on disk fixed.              *)
(*   SpecRegen: a descriptor that starts without the marker; between       *)
(*              rebuilds a catalog source may appear on disk, so that the  *)
(*              catalog in effect grows by one source.                     *)
(***************************************************************************)
MaxGniLen == 3
MaxBaseLen == 1
MaxRebuilds == 2

\* the tokens descriptors are drawn from: line ends, other text, the marker,
\* braces, and quoted sources: one whose base name a catalog source repeats,
\* one named like that source's wrapper, and one catalog source itself
GniAlphabet ==
    { NL, CR, W("x"), MK, LB, RB,
      Q(<<"libavcodec", "data", "c">>),
      Q(<<"libavcodec", "hevc_data", "c">>),
      Q(<<"libavcodec", "ac3", "c">>) }

RECURSIVE SeqsUpTo(_, _)
SeqsUpTo(S, n) ==
    IF n = 0 THEN {<<>>}
    ELSE LET shorter == SeqsUpTo(S, n - 1)
         IN  shorter \cup {Append(s, x) : s \in {t \in shorter : Len(t) = n - 1}, x \in S}

NoResult ==
    [text |-> <<>>, added |-> 0, warnings |-> <<>>, wrappers |-> <<>>,
     cleaned |-> <<>>, resolved |-> <<>>, pool0 |-> {}]

\* the parts of the state a specification does not use stay as they start
NoEdits == <<>>

NoCounts == [flags |-> 0, codec |-> 0, parser |-> 0, demuxer |-> 0, gni |-> 0, files |-> 0]

RunIdle ==
    /\ script = "" /\ check = FALSE /\ pc = "idle" /\ loopAt = 0
    /\ written = <<>> /\ backups = {} /\ backups0 = {}
    /\ status = 0 /\ error = "" /\ warned = <<>> /\ counts = NoCounts
    /\ edits = NoEdits /\ summary = <<>>

FnIdle == fnName = "" /\ fnText = <<>> /\ fnIn = <<>> /\ fnOut = <<>> /\ fnRuns = 0

GniIdle ==
    /\ gni = <<>> /\ gni0 = <<>> /\ srcFiles = {} /\ gniIn = <<>>
    /\ gniRes = NoResult /\ gniFresh = FALSE /\ gniRuns = 0

NoResolved == [resolved |-> <<>>, wrappers |-> <<>>, pool |-> {}]

ResIdle == resSources = <<>> /\ resPool = {} /\ resOut = NoResolved /\ resDone = FALSE

NoListResult == [text |-> <<>>, added |-> 0, raised |-> FALSE]

ListIdle ==
    /\ listText = <<>> /\ listEntries = <<>> /\ listIn = <<>>
    /\ listOut = NoListResult /\ listRuns = 0

GniInit ==
    /\ ResIdle /\ ListIdle /\ RunIdle /\ FnIdle
    /\ gni \in {read_text(content) : content \in SeqsUpTo(GniAlphabet, MaxGniLen)}
    /\ gni0 = gni
    /\ srcFiles \in SUBSET AllExtraSources
    /\ gniIn = <<>>
    /\ gniRes = NoResult
    /\ gniFresh = FALSE
    /\ gniRuns = 0

\* longer marker-free descriptors: a source list in a block, blank lines at
\* the end, CRLF line ends
RegenSamples ==
    { <<W("x"), LB, NL, Q(<<"libavcodec", "data", "c">>), NL, RB, NL>>,
      <<Q(<<"libavcodec", "ac3", "c">>), NL, NL, NL>>,
      <<W("x"), CR, NL, Q(<<"libavcodec", "hevc_data", "c">>), CR, NL>> }

RegenInit ==
    /\ ResIdle /\ ListIdle /\ RunIdle /\ FnIdle
    /\ gni \in {read_text(content) :
                 content \in SeqsUpTo(GniAlphabet \ {MK}, MaxBaseLen) \cup RegenSamples}
    /\ gni0 = gni
    /\ srcFiles \in SUBSET AllExtraSources
    /\ gniIn = <<>>
    /\ gniRes = NoResult
    /\ gniFresh = FALSE
    /\ gniRuns = 0

Rebuild ==
    /\ gniRuns < MaxRebuilds
    /\ \E res \in {patch_ffmpeg_generated_gni(gni, srcFiles)} :
           /\ gniRes' = res
           /\ gni' = res.text
    /\ gniIn' = gni
    /\ gniFresh' = TRUE
    /\ gniRuns' = gniRuns + 1
    /\ UNCHANGED <<gni0, srcFiles, resVars, listVars, runVars, fnVars>>

\* a catalog source appears on disk after a rebuild
AddSourceFile ==
    /\ gniFresh
    /\ gniRuns < MaxRebuilds
    /\ \E s \in AllExtraSources \ srcFiles : srcFiles' = srcFiles \cup {s}
    /\ gniFresh' = FALSE
    /\ UNCHANGED <<gni, gni0, gniIn, gniRes, gniRuns, resVars, listVars, runVars, fnVars>>

GniNext == Rebuild

RegenNext == Rebuild \/ AddSourceFile

SpecGni == GniInit /\ [][GniNext]_vars

SpecRegen == RegenInit /\ [][RegenNext]_vars

(***************************************************************************)
(* SpecResolve: resolve_basename_collisions on its own, for any ordered    *)
(* list of candidates and any set of names already claimed.                *)
(***************************************************************************)
MaxCands == 2

\* candidate paths: two files of one base name in sibling directories, two
\* more of that name one level down in directories of one name, a file named
\* like their wrapper, one without a directory, and one of another name
CandidatePaths ==
    { <<"a", "data", "c">>, <<"b", "data", "c">>,
      <<"g", "s", "data", "c">>, <<"h", "s", "data", "c">>,
      <<"g", "s_data", "c">>, <<"data", "c">>, <<"a", "util", "c">> }

ClaimedNames == {"data.c", "s_data.c", "util.c"}

ResolveInit ==
    /\ GniIdle /\ ListIdle /\ RunIdle /\ FnIdle
    /\ resSources \in SeqsUpTo(CandidatePaths, MaxCands)
    /\ resPool \in SUBSET ClaimedNames
    /\ resOut = NoResolved
    /\ resDone = FALSE

Resolve ==
    /\ ~resDone
    /\ resOut' = resolve_basename_collisions(resSources, resPool)
    /\ resDone' = TRUE
    /\ UNCHANGED <<resSources, resPool, gniVars, listVars, runVars, fnVars>>

ResolveNext == Resolve

SpecResolve == ResolveInit /\ [][ResolveNext]_vars

(***************************************************************************)
(* SpecList: patch_list_file applied to a list file, and again to what it  *)
(* returned.                                                               *)
(***************************************************************************)
MaxListLen == 4
MaxListRuns == 2

ListAlphabet ==
    {NL, CR, FF, SP, CM, SEMI, NULL, W("x"),
     W(DEMUXER_LIST_ENTRIES[1]), W(DEMUXER_LIST_ENTRIES[2])}

IsWord(tok) == tok[1] = "w"

\* two words side by side would be one word
ListTexts ==
    {read_text(t) : t \in {c \in SeqsUpTo(ListAlphabet, MaxListLen) :
        \A i \in 1..(Len(c) - 1) : ~(IsWord(c[i]) /\ IsWord(c[i + 1]))}}

ListInit ==
    /\ GniIdle /\ ResIdle /\ RunIdle /\ FnIdle
    /\ listText \in ListTexts
    /\ listEntries \in {DEMUXER_LIST_ENTRIES, <<DEMUXER_LIST_ENTRIES[2]>>}
    /\ listIn = <<>>
    /\ listOut = NoListResult
    /\ listRuns = 0

\* one call of patch_list_file on the text as it stands
PatchList ==
    /\ listRuns < MaxListRuns
    /\ ~listOut.raised
    /\ \E res \in {patch_list_file(listText, listEntries)} :
           /\ listOut' = res
           /\ listText' = res.text
    /\ listIn' = listText
    /\ listRuns' = listRuns + 1
    /\ UNCHANGED <<listEntries, gniVars, resVars, runVars, fnVars>>

ListNext == PatchList

SpecList == ListInit /\ [][ListNext]_vars

(***************************************************************************)
(* Spec: one run of patch_ffmpeg_configs.py or of patch_chromium_media.py. *)
(* What a file holds is settled when the run reads it.                     *)
(***************************************************************************)
\* the first targets of the catalog
TARGETS == << <<"linux", "x64">>, <<"linux", "arm64">> >>

TargetFile(t, leaf) == <<TARGETS[t][1], TARGETS[t][2], leaf>>

FFMPEG_GENERATED_GNI == <<"third_party/ffmpeg", "ffmpeg_generated.gni">>

BUILD_GN == <<"third_party/ffmpeg", "BUILD.gn">>

\* FFMPEG_ROOT / wrapper_path, marked as a wrapper source
WrapperFile(path) == <<"third_party/ffmpeg", "wrapper">> \o path

\* the keys of main's targets, in order
ChromiumTargets ==
    << <<"media/base/supported_types.cc">>, <<"media/ffmpeg/ffmpeg_common.cc">>,
       <<"media/filters/ffmpeg_video_decoder.cc">>, <<"media/filters/ffmpeg_glue.cc">> >>

\* --- what the files may hold ---
ConfigSamples ==
    { <<W("#define"), SP, W("CONFIG_HEVC_DECODER"), SP, W("0"), NL>>,
      <<W("#define"), SP, W("CONFIG_HEVC_DECODER"), SP, W("1"), NL>> }

ListHead == <<SP, SP, W("&ff_aac"), CM, NL>>

ListTail == <<SP, SP, NULL, SP, RB, SEMI, NL>>

EntryLines(entries) ==
    Concat([k \in 1..Len(entries) |-> <<SP, SP, W(entries[k]), CM, NL>>])

\* a list that lacks the entries, and one without its NULL line
ListSamples(entries) == { ListHead \o ListTail, ListHead }

\* and a list that has the entries
CodecListSamples ==
    ListSamples(CODEC_LIST_ENTRIES)
        \cup { ListHead \o EntryLines(CODEC_LIST_ENTRIES) \o ListTail }

GniSamples ==
    { <<W("x"), NL>>, <<Q(<<"libavcodec", "data", "c">>), CR, NL>> }

SourceSamples ==
    { {}, {<<"libavcodec", "ac3", "c">>},
      {<<"libavcodec", "hevc", "data", "c">>, <<"libavcodec", "ac3", "c">>} }

BuildGnHead == TargetLex \o <<SP, LB, NL, SP, W("include_dirs"), SP, EQ, SP, LBK, NL>>

BuildGnSamples ==
    { BuildGnHead \o <<SP, SP, Str("."), CM, NL, SP, RBK, NL, RB, NL>>,
      BuildGnHead \o <<SP, SP, Str("."), CM, NL, SP, SP, Str("libavcodec"), CM, NL,
                       SP, RBK, NL, RB, NL>>,
      <<W("x"), NL>> }

\* a text without any of the anchors
NoAnchors == <<W("x"), NL>>

SupportedTypesFns ==
    <<W("IsDefaultDecoderSupportedAudioType"), LP, RP, NL,
      W("IsDefaultDecoderSupportedVideoType"), LP, RP, NL>>

\* the functions with guarded returns, and with the AAC and H264 cases only
SupportedTypesGuarded ==
    SupportedTypesFns
        \o <<SP>> \o CaseLine("AudioCodec::kAC3:") \o <<SP>> \o CaseLine("AudioCodec::kEAC3:")
        \o <<SP, SP, W("return"), SP>> \o Tail(Ac3Guard) \o <<NL>>
        \o <<SP>> \o CaseLine("VideoCodec::kHEVC:")
        \o <<SP, SP, W("return"), SP>> \o Tail(HevcGuard) \o <<NL>>

SupportedTypesBare ==
    SupportedTypesFns
        \o <<SP>> \o CaseLine("AudioCodec::kAAC:") \o <<SP>> \o CaseLine("VideoCodec::kH264:")

SupportedTypesSamples ==
    { SupportedTypesGuarded, SupportedTypesBare, NoAnchors,
      patch_supported_types(SupportedTypesGuarded).text }

FfmpegCommonUpstream ==
    <<SP>> \o CaseLine("AudioCodec::kAAC:")
        \o <<SP, SP, W("return"), SP, W("AV_CODEC_ID_AAC"), SEMI, NL>>
        \o <<SP>> \o CaseLine("VideoCodec::kH264:")
        \o <<SP, SP, W("return"), SP, W("AV_CODEC_ID_H264"), SEMI, NL>>
        \o <<W("return"), SP, Str("h264"), SEMI, NL>>
        \o <<W("#define"), SP, W("EXTRA_CODECS"), SP, Str(",aac"), NL>>

FfmpegCommonSamples ==
    { FfmpegCommonUpstream, NoAnchors, patch_ffmpeg_common(FfmpegCommonUpstream).text }

VideoDecoderUpstream ==
    <<W("switch"), NL, SP>> \o CaseLine("VideoCodec::kHEVC:")
        \o <<SP, SP, W("NOTREACHED"), LP, RP, SEMI, NL>>
        \o <<SP>> \o CaseLine("VideoCodec::kH264:")

VideoDecoderSamples ==
    { VideoDecoderUpstream, NoAnchors, patch_ffmpeg_video_decoder(VideoDecoderUpstream).text }

GlueUpstream == <<SP, SP>> \o PushBack("aac") \o <<NL>>

GlueSamples == { GlueUpstream, NoAnchors, patch_ffmpeg_glue_demuxers(GlueUpstream).text }

RunInit ==
    /\ GniIdle /\ ResIdle /\ ListIdle /\ FnIdle
    /\ script \in {"patch_ffmpeg_configs", "patch_chromium_media"}
    /\ check \in BOOLEAN
    /\ pc = "main"
    /\ loopAt = 1
    /\ written = <<>>
    /\ backups \in (IF script = "patch_chromium_media"
                    THEN SUBSET {ChromiumTargets[1], ChromiumTargets[4]} ELSE {{}})
    /\ backups0 = backups
    /\ status = 0 /\ error = "" /\ warned = <<>> /\ counts = NoCounts
    /\ edits = NoEdits /\ summary = <<>>

notRun == <<gniVars, resVars, listVars, fnVars>>

\* --- patch_ffmpeg_configs.py ---

\* a variant that writes whenever the text changed
ShouldWrite_Always(changed, chk) == changed

\* apply_patch writes when the text changed and the run is no check
ShouldWrite(changed, chk) == changed /\ ~chk

\* the run ends with the exit status
Exit(code, message) ==
    /\ pc' = "done"
    /\ status' = code
    /\ error' = message

\* main up to the loop: the configuration root and the descriptor must exist
FfmpegMain ==
    /\ script = "patch_ffmpeg_configs" /\ pc = "main"
    /\ \E root_is_dir, gni_is_file \in BOOLEAN :
           IF root_is_dir /\ gni_is_file
           THEN pc' = "platform_dir" /\ UNCHANGED <<status, error>>
           ELSE Exit(1, "")
    /\ UNCHANGED <<script, check, loopAt, written, backups, backups0, warned, counts,
                   edits, summary, notRun>>

\* a variant that leaves the loop instead of going on with the next target
NextTarget_Break == pc' = "gni" /\ UNCHANGED loopAt

\* a variant that goes from the last target to the report, without the
\* descriptor
NextTarget_SkipGni ==
    IF loopAt < Len(TARGETS)
    THEN pc' = "platform_dir" /\ loopAt' = loopAt + 1
    ELSE pc' = "report" /\ UNCHANGED loopAt

\* after the last file of a target: the next target, or the descriptor
NextTarget ==
    IF loopAt < Len(TARGETS)
    THEN pc' = "platform_dir" /\ loopAt' = loopAt + 1
    ELSE pc' = "gni" /\ UNCHANGED loopAt

\* the head of the loop body: a target without its directory is skipped
PlatformDir ==
    /\ script = "patch_ffmpeg_configs" /\ pc = "platform_dir"
    /\ \E is_dir \in BOOLEAN :
           IF is_dir
           THEN pc' = "config_components" /\ UNCHANGED <<loopAt, warned>>
           ELSE /\ NextTarget
                /\ warned' = Append(warned, <<"WARN: Missing config directory",
                                                  TARGETS[loopAt]>>)
    /\ UNCHANGED <<script, check, written, backups, backups0, status, error, counts,
                   edits, summary, notRun>>

\* one file of the target: a warning when it is missing, else apply_patch with
\* the patcher's result res = [text, count, raised] on the text original, and
\* the line printed for the file
PatchFile(file, content, res, field) ==
    /\ IF content = Absent
       THEN /\ warned' = Append(warned, <<"WARN: Missing file", file>>)
            /\ UNCHANGED <<written, counts, status, error, summary>>
       ELSE IF res.raised
       THEN /\ Exit(1, "Could not find NULL terminator in list file")
            /\ UNCHANGED <<written, counts, warned, summary>>
       ELSE /\ written' = IF ShouldWrite(res.text # read_text(content), check)
                          THEN Append(written, file) ELSE written
            /\ counts' = [counts EXCEPT ![field] = @ + res.count,
                                        !.files = @ + (IF res.text # read_text(content)
                                                       THEN 1 ELSE 0)]
            /\ summary' = Append(summary, <<"Patching", file, res.count>>)
            /\ UNCHANGED <<warned, status, error>>
    /\ UNCHANGED <<script, check, backups, backups0, edits, notRun>>

NoPatch == [text |-> <<>>, count |-> 0, raised |-> FALSE]

ListPatch(content, entries) ==
    IF content = Absent THEN NoPatch
    ELSE The({ [text |-> r.text, count |-> r.added, raised |-> r.raised] :
               r \in {patch_list_file(read_text(content), entries)} })

ConfigPatch(content) ==
    IF content = Absent THEN NoPatch
    ELSE The({ [text |-> r.text, count |-> r.count, raised |-> FALSE] :
               r \in {patch_config_components(read_text(content))} })

PatchConfigComponents ==
    /\ script = "patch_ffmpeg_configs" /\ pc = "config_components"
    /\ \E content \in ConfigSamples \cup {Absent} :
           \E res \in {ConfigPatch(content)} :
               PatchFile(TargetFile(loopAt, "config_components.h"), content, res, "flags")
    /\ pc' = "codec_list"
    /\ UNCHANGED loopAt

PatchCodecList ==
    /\ script = "patch_ffmpeg_configs" /\ pc = "codec_list"
    /\ \E content \in CodecListSamples \cup {Absent} :
           \E res \in {ListPatch(content, CODEC_LIST_ENTRIES)} :
               /\ PatchFile(TargetFile(loopAt, "libavcodec/codec_list.c"), content, res, "codec")
               /\ IF content # Absent /\ res.raised THEN TRUE ELSE pc' = "parser_list"
    /\ UNCHANGED loopAt

PatchParserList ==
    /\ script = "patch_ffmpeg_configs" /\ pc = "parser_list"
    /\ \E content \in ListSamples(PARSER_LIST_ENTRIES) \cup {Absent} :
           \E res \in {ListPatch(content, PARSER_LIST_ENTRIES)} :
               /\ PatchFile(TargetFile(loopAt, "libavcodec/parser_list.c"), content, res, "parser")
               /\ IF content # Absent /\ res.raised THEN TRUE ELSE pc' = "demuxer_list"
    /\ UNCHANGED loopAt

PatchDemuxerList ==
    /\ script = "patch_ffmpeg_configs" /\ pc = "demuxer_list"
    /\ \E content \in ListSamples(DEMUXER_LIST_ENTRIES) \cup {Absent} :
           \E res \in {ListPatch(content, DEMUXER_LIST_ENTRIES)} :
               /\ PatchFile(TargetFile(loopAt, "libavformat/demuxer_list.c"), content, res,
                            "demuxer")
               /\ IF content # Absent /\ res.raised THEN UNCHANGED loopAt ELSE NextTarget

\* what main may read of the descriptor and find on disk, with what
\* patch_ffmpeg_generated_gni makes of it
GniReads ==
    { [gni_text |-> read_text(content),
       res      |-> patch_ffmpeg_generated_gni(read_text(content), files)] :
      content \in GniSamples, files \in SourceSamples }

\* what BUILD.gn may hold, with what patch_ffmpeg_build_gn makes of it
BuildGnReads ==
    { patch_ffmpeg_build_gn(IF content = Absent THEN Absent ELSE read_text(content)) :
      content \in BuildGnSamples \cup {Absent} }

\* the wrapper files create_wrapper_files writes, in order
WrapperFiles(wrappers) == [k \in 1..Len(wrappers) |-> WrapperFile(wrappers[k][1])]

\* main on the descriptor: patch_ffmpeg_generated_gni, which creates the
\* wrapper files unless the run is a check, then the write of its result and
\* the line printed for the descriptor
PatchGni ==
    /\ script = "patch_ffmpeg_configs" /\ pc = "gni"
    /\ \E read \in GniReads :
           /\ written' = written
                  \o (IF check THEN <<>> ELSE WrapperFiles(read.res.wrappers))
                  \o (IF ShouldWrite(read.res.text # read.gni_text, check)
                      THEN <<FFMPEG_GENERATED_GNI>> ELSE <<>>)
           /\ counts' = [counts EXCEPT !.gni = read.res.added,
                                       !.files = @ + (IF read.res.text # read.gni_text
                                                      THEN 1 ELSE 0)]
           /\ warned' = warned \o [k \in 1..Len(read.res.warnings) |->
                                       <<"WARN: Missing source", read.res.warnings[k]>>]
           /\ summary' = Append(summary, <<"Patching", FFMPEG_GENERATED_GNI, read.res.added>>)
    /\ pc' = "build_gn"
    /\ UNCHANGED <<script, check, loopAt, backups, backups0, status, error, edits, notRun>>

\* main's call of patch_ffmpeg_build_gn, its messages printed
PatchBuildGn ==
    /\ script = "patch_ffmpeg_configs" /\ pc = "build_gn"
    /\ \E res \in BuildGnReads :
           /\ written' = IF res.write /\ ~check THEN Append(written, BUILD_GN) ELSE written
           /\ summary' = IF res.message = "" THEN summary ELSE Append(summary, <<res.message>>)
    /\ pc' = "report"
    /\ UNCHANGED <<script, check, loopAt, backups, backups0, status, error, warned, counts,
                   edits, notRun>>

\* the warnings and the summary line are printed, the run returns 0
Report ==
    /\ script = "patch_ffmpeg_configs" /\ pc = "report"
    /\ summary' = summary \o warned \o << <<"Summary">> >>
                      \o (IF check THEN << <<"Check mode: no files written">> >> ELSE <<>>)
    /\ Exit(0, "")
    /\ UNCHANGED <<script, check, loopAt, written, backups, backups0, warned, counts,
                   edits, notRun>>

\* --- patch_chromium_media.py ---

\* every target must exist
ChromiumMain ==
    /\ script = "patch_chromium_media" /\ pc = "main"
    /\ \E all_exist \in BOOLEAN :
           IF all_exist
           THEN pc' = "compute" /\ UNCHANGED <<status, error>>
           ELSE Exit(1, "Missing file")
    /\ UNCHANGED <<script, check, loopAt, written, backups, backups0, warned, counts,
                   edits, summary, notRun>>

Edit(path, original, r) ==
    [path |-> path, original |-> original, patched |-> r.text, changed |-> r.changed,
     raised |-> r.raised]

\* the changes of the edits whose text differs, in order
RECURSIVE Summary(_)
Summary(es) ==
    IF es = <<>> THEN <<>>
    ELSE (IF Head(es).original # Head(es).patched THEN Head(es).changed ELSE <<>>)
             \o Summary(Tail(es))

\* every patcher runs on its file before anything is written; a patcher that
\* raises ends the run with status 1; without changes, and on a dry run, the
\* run returns 0
ComputeEdits ==
    /\ script = "patch_chromium_media" /\ pc = "compute"
    /\ \E c1 \in SupportedTypesSamples, c2 \in FfmpegCommonSamples,
          c3 \in VideoDecoderSamples, c4 \in GlueSamples :
         \E es \in {<<Edit(ChromiumTargets[1], read_text(c1),
                           patch_supported_types(read_text(c1))),
                      Edit(ChromiumTargets[2], read_text(c2),
                           patch_ffmpeg_common(read_text(c2))),
                      Edit(ChromiumTargets[3], read_text(c3),
                           patch_ffmpeg_video_decoder(read_text(c3))),
                      Edit(ChromiumTargets[4], read_text(c4),
                           patch_ffmpeg_glue_demuxers(read_text(c4)))>>} :
           IF \E k \in 1..Len(es) : es[k].raised
           THEN Exit(1, "RuntimeError") /\ UNCHANGED <<edits, summary, loopAt>>
           ELSE /\ edits' = es
                /\ summary' = Summary(es)
                /\ loopAt' = 1
                /\ IF Summary(es) = <<>> \/ check
                   THEN Exit(0, "")
                   ELSE pc' = "edit" /\ UNCHANGED <<status, error>>
    /\ UNCHANGED <<script, check, written, backups, backups0, warned, counts, notRun>>

\* after an edit: the next one, or the end of the run
NextEdit ==
    IF loopAt < Len(edits)
    THEN loopAt' = loopAt + 1 /\ pc' = "edit" /\ UNCHANGED <<status, error>>
    ELSE UNCHANGED loopAt /\ Exit(0, "")

\* the head of the write loop: an unchanged file is passed over
SkipOrBackup ==
    /\ script = "patch_chromium_media" /\ pc = "edit"
    /\ IF edits[loopAt].original = edits[loopAt].patched
       THEN NextEdit
       ELSE pc' = "backup_once" /\ UNCHANGED <<loopAt, status, error>>
    /\ UNCHANGED <<script, check, written, backups, backups0, warned, counts, edits,
                   summary, notRun>>

\* backup_once: the file is copied unless its backup exists
backup_once ==
    /\ script = "patch_chromium_media" /\ pc = "backup_once"
    /\ backups' = backups \cup {edits[loopAt].path}
    /\ pc' = "write_text"
    /\ UNCHANGED <<script, check, loopAt, written, backups0, status, error, warned, counts,
                   edits, summary, notRun>>

\* write_text of the patched text
WritePatched ==
    /\ script = "patch_chromium_media" /\ pc = "write_text"
    /\ written' = Append(written, edits[loopAt].path)
    /\ NextEdit
    /\ UNCHANGED <<script, check, backups, backups0, warned, counts, edits, summary,
                   notRun>>

Next ==
    \/ FfmpegMain \/ PlatformDir \/ PatchConfigComponents \/ PatchCodecList
    \/ PatchParserList \/ PatchDemuxerList \/ PatchGni \/ PatchBuildGn \/ Report
    \/ ChromiumMain \/ ComputeEdits \/ SkipOrBackup \/ backup_once \/ WritePatched

Spec == RunInit /\ [][Next]_vars

(***************************************************************************)
(* SpecConfig: patch_config_components applied to a config header, and     *)
(* again to what it returned, as apply_patch does run after run.           *)
(***************************************************************************)
MaxCfgLen == 5
MaxCfgRuns == 2

\* line feed, space, #define, a catalog flag, a flag whose name extends it,
\* and the values 0 and 1
CfgAlphabet ==
    { NL, SP, W("#define"), W(CONFIG_FLAGS[1]), W(CONFIG_FLAGS[1] \o "_X"), W("0"), W("1") }

DefineLine(flag, value) == <<W("#define"), SP, W(flag), SP, W(value)>>

\* longer headers: both flags, a comment after the value, CRLF line ends,
\* a flag already on, an extended name, an indented directive
CfgSamples ==
    { DefineLine(CONFIG_FLAGS[1], "0") \o <<SP, CMT, NL>>
          \o DefineLine(CONFIG_FLAGS[2], "0") \o <<NL>>
          \o DefineLine(CONFIG_FLAGS[1] \o "_X", "0") \o <<NL>>,
      DefineLine(CONFIG_FLAGS[2], "1") \o <<CR, NL>>
          \o DefineLine(CONFIG_FLAGS[1], "0") \o <<CR, NL>>,
      <<SP, SP>> \o DefineLine(CONFIG_FLAGS[2], "0") \o <<SEMI, FF>>
          \o DefineLine(CONFIG_FLAGS[2], "0") }

CfgTexts ==
    { read_text(t) : t \in {c \in SeqsUpTo(CfgAlphabet, MaxCfgLen) :
        \A i \in 1..(Len(c) - 1) : ~(IsWord(c[i]) /\ IsWord(c[i + 1]))} \cup CfgSamples }

ConfigInit ==
    /\ GniIdle /\ ResIdle /\ ListIdle /\ RunIdle
    /\ fnName = "patch_config_components"
    /\ fnText \in CfgTexts
    /\ fnIn = <<>>
    /\ fnOut = <<>>
    /\ fnRuns = 0

\* one call of patch_config_components on the header as it stands
PatchConfig ==
    /\ fnName = "patch_config_components"
    /\ fnRuns < MaxCfgRuns
    /\ \E res \in {patch_config_components(fnText)} :
           /\ fnOut' = res
           /\ fnText' = res.text
    /\ fnIn' = fnText
    /\ fnRuns' = fnRuns + 1
    /\ UNCHANGED <<fnName, gniVars, resVars, listVars, runVars>>

ConfigNext == PatchConfig

SpecConfig == ConfigInit /\ [][ConfigNext]_vars

(***************************************************************************)
(* SpecMedia: one of the four Chromium media patchers applied to its file, *)
(* and again to what it returned, as main does run after run.  The files   *)
(* are made of whole lines.                                                *)
(***************************************************************************)
MaxPieces == 4
MaxMediaRuns == 2

\* "  return <guard's call>;\n" for a guard given as its lexemes
ReturnLine(guard) == <<SP, SP, W("return"), SP>> \o Tail(guard) \o <<NL>>

\* the lines supported_types.cc is made of: case labels of the three groups
\* and of the two stable siblings, the guarded returns, a plain return
SupportedPieces ==
    { <<SP>> \o CaseLine(label) :
          label \in {"AudioCodec::kAAC:", "AudioCodec::kAC3:", "AudioCodec::kEAC3:",
                     "AudioCodec::kDTS:", "AudioCodec::kDTSXP2:"} }
    \cup { <<SP, SP>> \o CaseLine(label) : label \in {"VideoCodec::kH264:", "VideoCodec::kHEVC:"} }
    \cup { ReturnLine(DtsGuard), ReturnLine(Ac3Guard), ReturnLine(HevcGuard),
           <<SP, SP>> \o ReturnTrue \o <<NL>> }

\* the lines of ffmpeg_common.cc: the AAC and H264 mappings, the two allowlists
CommonPieces ==
    { <<SP>> \o CaseLine("AudioCodec::kAAC:"),
      <<SP, SP, W("return"), SP, W("AV_CODEC_ID_AAC"), SEMI, NL>>,
      <<SP>> \o CaseLine("VideoCodec::kH264:"),
      <<SP, SP, W("return"), SP, W("AV_CODEC_ID_H264"), SEMI, NL>>,
      <<W("return"), SP, Str("h264"), SEMI, NL>>,
      <<W("#define"), SP, W("EXTRA_CODECS"), SP, Str(",aac"), NL>> }

\* the lines of ffmpeg_video_decoder.cc: case labels, a comment, NOTREACHED,
\* another statement
DecoderPieces ==
    { <<SP>> \o CaseLine("VideoCodec::kHEVC:"), <<SP>> \o CaseLine("VideoCodec::kH264:"),
      <<SP>> \o CaseLine("VideoCodec::kVP9:"),
      <<SP, SP, CMT, NL>>,
      <<SP, SP, W("NOTREACHED"), LP, RP, SEMI, NL>>,
      <<SP, SP, W("break"), SEMI, NL>> }

\* the lines of ffmpeg_glue.cc: push_back calls and another statement
GluePieces ==
    { <<SP, SP>> \o PushBack("aac") \o <<NL>>, <<SP, SP>> \o PushBack("ac3") \o <<NL>>,
      <<SP, SP, SP>> \o PushBack("dts") \o <<NL>>, <<W("x"), SEMI, NL>> }

\* a first line followed by up to n of the pieces
Lines(first, pieces, n) == { first \o Concat(ls) : ls \in SeqsUpTo(pieces, n) }

MediaPatchers ==
    { "patch_supported_types", "patch_ffmpeg_common", "patch_ffmpeg_video_decoder",
      "patch_ffmpeg_glue_demuxers" }

\* the texts a patcher is given: its file's lines, and a file without anchors
MediaTexts(name) ==
    { NoAnchors } \cup
    ( CASE name = "patch_supported_types" -> Lines(SupportedTypesFns, SupportedPieces, MaxPieces)
        [] name = "patch_ffmpeg_common" -> Lines(<<NL>>, CommonPieces, MaxPieces)
        [] name = "patch_ffmpeg_video_decoder" ->
               Lines(<<W("switch"), NL>>, DecoderPieces, MaxPieces)
        [] name = "patch_ffmpeg_glue_demuxers" -> Lines(<<NL>>, GluePieces, MaxPieces) )

MediaInit ==
    /\ GniIdle /\ ResIdle /\ ListIdle /\ RunIdle
    /\ fnName \in MediaPatchers
    /\ fnText \in {read_text(content) : content \in MediaTexts(fnName)}
    /\ fnIn = <<>>
    /\ fnOut = <<>>
    /\ fnRuns = 0

\* main on one file: the patcher's result res on the text as it stands; the
\* patched text is the file's next text unless the patcher raised
ApplyPatcher(name, res) ==
    /\ fnOut' = res
    /\ fnText' = IF res.raised THEN fnText ELSE res.text
    /\ fnIn' = fnText
    /\ fnRuns' = fnRuns + 1
    /\ UNCHANGED <<fnName, gniVars, resVars, listVars, runVars>>

\* a patcher may be applied while the run before did not raise
MayApply(name) ==
    /\ fnName = name
    /\ fnRuns < MaxMediaRuns
    /\ IF fnRuns = 0 THEN TRUE ELSE ~fnOut.raised

PatchSupportedTypes ==
    /\ MayApply("patch_supported_types")
    /\ \E res \in {patch_supported_types(fnText)} : ApplyPatcher(fnName, res)

PatchFfmpegCommon ==
    /\ MayApply("patch_ffmpeg_common")
    /\ \E res \in {patch_ffmpeg_common(fnText)} : ApplyPatcher(fnName, res)

PatchVideoDecoder ==
    /\ MayApply("patch_ffmpeg_video_decoder")
    /\ \E res \in {patch_ffmpeg_video_decoder(fnText)} : ApplyPatcher(fnName, res)

PatchGlueDemuxers ==
    /\ MayApply("patch_ffmpeg_glue_demuxers")
    /\ \E res \in {patch_ffmpeg_glue_demuxers(fnText)} : ApplyPatcher(fnName, res)

MediaNext == PatchSupportedTypes \/ PatchFfmpegCommon \/ PatchVideoDecoder \/ PatchGlueDemuxers

SpecMedia == MediaInit /\ [][MediaNext]_vars

(***************************************************************************)
(* SpecBlock: find_block_end on its own, called as remove_managed_block    *)
(* calls it, at an opening brace of the text.                              *)
(***************************************************************************)
MaxBlockLen == 5

BlockAlphabet == {LB, RB, NL, W("x")}

BlockTexts ==
    {c \in SeqsUpTo(BlockAlphabet, MaxBlockLen) :
        \A i \in 1..(Len(c) - 1) : ~(IsWord(c[i]) /\ IsWord(c[i + 1]))}

\* fnIn is opening_brace_index, fnOut what find_block_end returned
BlockInit ==
    /\ GniIdle /\ ResIdle /\ ListIdle /\ RunIdle
    /\ fnName = "find_block_end"
    /\ fnText \in BlockTexts
    /\ fnIn \in {i \in 1..Len(fnText) : fnText[i] = LB}
    /\ fnOut = 0
    /\ fnRuns = 0

FindBlockEnd ==
    /\ fnName = "find_block_end"
    /\ fnRuns = 0
    /\ fnOut' = find_block_end(fnText, fnIn)
    /\ fnRuns' = 1
    /\ UNCHANGED <<fnName, fnText, fnIn, gniVars, resVars, listVars, runVars>>

BlockNext == FindBlockEnd

SpecBlock == BlockInit /\ [][BlockNext]_vars

(***************************************************************************)
(* Claims about the descriptor rebuild.                                    *)
(***************************************************************************)
\* the paths of the quoted strings of a text, in order
QuotedPaths(text) ==
    LET qs == SelectSeq(text, IsQuoted)
    IN  [i \in 1..Len(qs) |-> PathOf(qs[i])]

\* the text before the first marker (all of it when there is none) and from it
BeforeMarker(text) ==
    IF Find(text, GNI_MARKER, 1) = 0 THEN text
    ELSE SubSeq(text, 1, Find(text, GNI_MARKER, 1) - 1)

FromMarker(text) ==
    IF Find(text, GNI_MARKER, 1) = 0 THEN <<>>
    ELSE SubSeq(text, Find(text, GNI_MARKER, 1), Len(text))

\* C1: a rebuild of the text a rebuild just returned, the files on disk the
\* same, returns that text again.
C1_RebuildIdempotent ==
    gniFresh => patch_ffmpeg_generated_gni(gni, srcFiles).text = gni

\* C4: the .c sources a rebuild accepted (verbatim or as wrappers) have
\* pairwise different base names, and none has a base name the pool held
\* when it was accepted (the names seeded from the descriptor and the names
\* accepted before it).
C4_NoSharedBaseName ==
    gniFresh =>
        \A i \in 1..Len(gniRes.resolved) :
            BaseName(gniRes.resolved[i]) \notin
                gniRes.pool0 \cup {BaseName(gniRes.resolved[k]) : k \in 1..(i - 1)}

\* C5: when every per-category list ends up empty, the rebuild returns the
\* cleaned text (the input without its managed block) and the count 0.
C5_EmptyReturnsCleaned ==
    gniFresh /\ gniRes.resolved = <<>> /\ gniRes.added = 0 =>
        gni = remove_managed_block(gniIn)

\* the marker is followed by a brace whose block never closes
UnterminatedBlock(text) ==
    /\ Find(text, GNI_MARKER, 1) # 0
    /\ Find(text, <<LB>>, Find(text, GNI_MARKER, 1)) # 0
    /\ find_block_end(text, Find(text, <<LB>>, Find(text, GNI_MARKER, 1))) = 0

\* C8: a rebuild of a text whose marker is followed by an unterminated brace
\* block does not go on to append a managed block: it adds nothing and leaves
\* the text as it was.  (patch_ffmpeg_generated_gni has no error outcome.)
C8_UnterminatedNotPatched ==
    gniFresh /\ UnterminatedBlock(gniIn) => gni = gniIn /\ gniRes.added = 0

\* the catalog sources that exist and do not occur, quoted, in the text the
\* descriptor started with, in the order of the block's categories
Qualifying(sources) ==
    SelectSeq(sources, LAMBDA s : s \in srcFiles /\ Q(s) \notin Range(gni0))

CatalogEntries ==
    Qualifying(EXTRA_C_SOURCES) \o Qualifying(EXTRA_X86_C_SOURCES)
        \o Qualifying(EXTRA_X86_ASM_SOURCES) \o Qualifying(EXTRA_AARCH64_C_SOURCES)
        \o Qualifying(EXTRA_AARCH64_GAS_SOURCES)

AllOnDisk(sources) == SelectSeq(sources, LAMBDA s : s \in srcFiles)

ClaimedAt(i) == resPool \cup {BaseName(resOut.resolved[k]) : k \in 1..(i - 1)}

Collides(i) == BaseName(resSources[i]) \in ClaimedAt(i)

\* how many of the first i candidates collided
CollisionsUpTo(i) == Cardinality({k \in 1..i : Collides(k)})

\* g/s_b for a candidate g/s/b
WrapperPathFor(c) ==
    SubSeq(c, 1, Len(c) - 3) \o <<c[Len(c) - 2] \o "_" \o c[Len(c) - 1], c[Len(c)]>>

\* s/b for a candidate g/s/b
ShortIncludeFor(c) == SubSeq(c, Len(c) - 2, Len(c))

\* C9 as stated: candidates are taken in order; an unclaimed one is accepted
\* verbatim, a colliding one in a directory g/s is replaced by g/s_b, with a
\* wrapper spec pairing g/s_b with the candidate's own path.
C9_WrapperPairsCandidate ==
    resDone =>
        /\ Len(resOut.resolved) = Len(resSources)
        /\ \A i \in 1..Len(resSources) :
               IF ~Collides(i) THEN resOut.resolved[i] = resSources[i]
               ELSE Len(resSources[i]) >= 3 =>
                        /\ resOut.resolved[i] = WrapperPathFor(resSources[i])
                        /\ resOut.wrappers[CollisionsUpTo(i)] =
                               <<WrapperPathFor(resSources[i]), resSources[i]>>

\* C9 as amended: the wrapper spec pairs g/s_b with s/b, the candidate's path
\* from the wrapper's directory g; there is one wrapper spec per collision,
\* in the candidates' order.
C9_ResolvedInOrder ==
    resDone =>
        /\ Len(resOut.resolved) = Len(resSources)
        /\ Len(resOut.wrappers) = CollisionsUpTo(Len(resSources))
        /\ \A i \in 1..Len(resSources) :
               IF ~Collides(i) THEN resOut.resolved[i] = resSources[i]
               ELSE Len(resSources[i]) >= 3 =>
                        /\ resOut.resolved[i] = WrapperPathFor(resSources[i])
                        /\ resOut.wrappers[CollisionsUpTo(i)] =
                               <<WrapperPathFor(resSources[i]),
                                 ShortIncludeFor(resSources[i])>>

\* a/data.c and b/data.c against an empty set: a/data.c, b_data.c, b/data.c
C9_Witness ==
    /\ resDone
    /\ resSources = << <<"a", "data", "c">>, <<"b", "data", "c">> >>
    /\ resPool = {}
    /\ resOut.resolved = << <<"a", "data", "c">>, <<"b_data", "c">> >>
    /\ resOut.wrappers = << << <<"b_data", "c">>, <<"b", "data", "c">> >> >>

(***************************************************************************)
(* Claims about list patching.                                             *)
(***************************************************************************)
\* C10: patch_list_file inserts the missing entries before the first NULL
\* line and returns their count; applied again to the text it returned, it
\* returns that text and 0.
C10_SecondCallAddsNothing ==
    (listRuns = 2 /\ ~listOut.raised) => (listOut.added = 0 /\ listOut.text = listIn)

(***************************************************************************)
(* Claims about a run of either script (Spec).                             *)
(***************************************************************************)
\* the errors a patcher raises on a text that lacks its anchors
StructuralErrors == {"Could not find NULL terminator in list file", "RuntimeError"}

\* C2: when a run ends on a structural error of some file's transformation,
\* no file was written during the run, and the exit status is not zero.
C2_NoWriteBeforeError ==
    (pc = "done" /\ error \in StructuralErrors) => (written = <<>> /\ status # 0)

\* C3: in a run with the check (dry-run) flag no file is ever written, be it
\* a per-platform file, the descriptor, BUILD.gn, a wrapper source or a
\* Chromium media file, and no backup is created.
C3_CheckWritesNothing == check => (written = <<>> /\ backups = backups0)

\* C3 witness: a finished check run of patch_ffmpeg_configs.py that reports
\* changed files, added descriptor sources and the BUILD.gn insertion.
C3_Witness ==
    /\ check /\ pc = "done" /\ status = 0
    /\ counts.files > 1 /\ counts.gni > 0
    /\ \E k \in 1..Len(summary) : summary[k] = <<"BUILD.gn: added 'libavcodec'">>

\* a wrapper source, which is created and is no patched target
IsWrapperFile(file) == Len(file) > 3 /\ file[2] = "wrapper"

\* C7: every write to a patched target file (a Chromium media file, a
\* per-platform config or list file, the descriptor, BUILD.gn) happens when a
\* backup of that file exists.
C7_BackupBeforeWrite ==
    \A k \in 1..Len(written) : ~IsWrapperFile(written[k]) => written[k] \in backups

(***************************************************************************)
(* Claims about patch_config_components (SpecConfig).                      *)
(***************************************************************************)
\* the 0 at index z is the value of a line `#define <flag> 0...`: directive,
\* flag and value stand on one line, white space before and between them
DefineLineZero(text, flag, z) ==
    /\ text[z] = W("0")
    /\ \E d \in 1..(z - 1) :
           /\ text[d] = W("#define")
           /\ AtLineStart(text, d)
           /\ MatchLex(text, d, <<W("#define"), W(flag), W("0")>>,
                       <<NoSpace, SomeSpace, SomeSpace>>) = z + 1
           /\ \A k \in d..z : text[k] # NL

CatalogZero(text, z) == \E k \in 1..Len(CONFIG_FLAGS) : DefineLineZero(text, CONFIG_FLAGS[k], z)

\* C11: patch_config_components turns the 0 of every line `#define <FLAG> 0...`
\* with FLAG in the catalog into 1, leaves everything else as it was, returns
\* the number of lines rewritten, and a second application changes nothing
\* and returns 0.
C11_TogglesCatalogLines ==
    (fnName = "patch_config_components" /\ fnRuns >= 1) =>
        /\ Len(fnOut.text) = Len(fnIn)
        /\ \A i \in 1..Len(fnIn) :
               fnOut.text[i] = IF CatalogZero(fnIn, i) THEN W("1") ELSE fnIn[i]
        /\ fnOut.count = Cardinality({i \in 1..Len(fnIn) : CatalogZero(fnIn, i)})
        /\ (fnRuns = 2 => (fnOut.count = 0 /\ fnOut.text = fnIn))

(***************************************************************************)
(* Claims about the Chromium media patchers (SpecMedia).                   *)
(***************************************************************************)
\* the runs of labels a group's guarded return may stand under: as the
\* patterns have them, and the run of the first AC3/EAC3 label alone
ClaimedAc3Runs == Ac3Runs \o << <<"AudioCodec::kAC3:">> >>

\* the text with the guarded return under every such run made `return true;`
OverriddenReturns(text) ==
    SubnGuarded(
        SubnGuarded(SubnGuarded(text, 1, DtsRuns, DtsGuard, 0).text,
                    1, ClaimedAc3Runs, Ac3Guard, 0).text,
        1, HevcRuns, HevcGuard, 0).text

\* C12: for each group (DTS, AC3/EAC3, HEVC) patch_supported_types turns the
\* guarded return under a run of the group's case labels into `return true;`
\* and keeps the labels, also when only the first label of the group is
\* there: what it returns is the text with exactly these returns overridden
\* (and the missing labels inserted).
C12_GuardedReturnsOverridden ==
    (fnName = "patch_supported_types" /\ fnRuns >= 1 /\ ~fnOut.raised) =>
        fnOut.text = SupportedFallbacks(OverriddenReturns(fnIn), <<>>).text

\* C15: each of the four Chromium patchers is idempotent: applied to what it
\* returned for an input on which it did not raise, it does not raise and
\* returns that text unchanged.
C15_PatchersIdempotent ==
    (fnName \in MediaPatchers /\ fnRuns = 2) => (~fnOut.raised /\ fnOut.text = fnIn)

\* the labels patch_supported_types is to leave in the text, each with the
\* stable sibling label it is inserted before
ExpectedLabels ==
    { <<"AudioCodec::kAC3:", "AudioCodec::kAAC:">>, <<"AudioCodec::kEAC3:", "AudioCodec::kAAC:">>,
      <<"AudioCodec::kDTS:", "AudioCodec::kAAC:">>, <<"AudioCodec::kDTSXP2:", "AudioCodec::kAAC:">>,
      <<"VideoCodec::kHEVC:", "VideoCodec::kH264:">> }

\* C16: after patch_supported_types returns without error every expected
\* label (kAC3, kEAC3, kDTS, kDTSXP2, kHEVC) is a case of the text; when a
\* label and its stable sibling (kAAC, kH264) are both absent, it raises.
C16_ExpectedLabelsPresent ==
    (fnName = "patch_supported_types" /\ fnRuns >= 1) =>
        \A e \in ExpectedLabels :
            /\ ~fnOut.raised => SearchCase(fnOut.text, e[1]) # 0
            /\ (SearchCase(fnIn, e[1]) = 0 /\ SearchCase(fnIn, e[2]) = 0) => fnOut.raised

(***************************************************************************)
(* Claims about the warnings and the order of a run (Spec).                *)
(***************************************************************************)
\* the step of main that follows the step at place p for target t when the
\* step raised nothing
StepAfter(p, t) ==
    CASE p = "platform_dir" ->
             IF t < Len(TARGETS) THEN <<"platform_dir", t + 1>> ELSE <<"gni", t>>
      [] p = "config_components" -> <<"codec_list", t>>
      [] p = "codec_list" -> <<"parser_list", t>>
      [] p = "parser_list" -> <<"demuxer_list", t>>
      [] p = "demuxer_list" ->
             IF t < Len(TARGETS) THEN <<"platform_dir", t + 1>> ELSE <<"gni", t>>
      [] p = "gni" -> <<"build_gn", t>>
      [] OTHER -> <<"done", t>>

\* a step that met a missing directory, file or source: it added a warning
Warns == script = "patch_ffmpeg_configs" /\ Len(warned') > Len(warned)

\* a run of patch_ffmpeg_configs.py that ended with warnings and without a
\* structural error returned 0, went through every target, and printed
\* every warning in its report
WarnedRunEnds ==
    (script = "patch_ffmpeg_configs" /\ pc = "done" /\ warned # <<>>
        /\ error \notin StructuralErrors) =>
        /\ status = 0
        /\ loopAt = Len(TARGETS)
        /\ \A k \in 1..Len(warned) : \E j \in 1..Len(summary) : summary[j] = warned[k]

\* C13: a missing platform directory, per-platform file or catalog source
\* only adds a warning: the step that warns sets no error, for a directory
\* or a per-platform file it writes and counts nothing, and it is followed
\* by the step for the next file or target; the warnings are printed in the
\* report, and the run returns 0 unless a structural error occurs.
C13_MissingOnlyWarns ==
    /\ [][Warns => /\ <<pc', loopAt'>> = StepAfter(pc, loopAt)
                   /\ UNCHANGED <<status, error>>
                   /\ pc # "gni" => UNCHANGED <<counts, written>>
                   /\ \A k \in 1..Len(warned) : warned'[k] = warned[k]]_vars
    /\ []WarnedRunEnds

\* C13 witness: a run that missed a directory, a file and a source, and
\* returned 0 with the three warnings in its report
C13_Witness ==
    /\ script = "patch_ffmpeg_configs" /\ pc = "done" /\ status = 0
    /\ \A kind \in {"WARN: Missing config directory", "WARN: Missing file",
                    "WARN: Missing source"} :
           \E k \in 1..Len(warned) :
               /\ warned[k][1] = kind
               /\ \E j \in 1..Len(summary) : summary[j] = warned[k]

\* the stage of main a place belongs to: Init, the per-target patches, the
\* descriptor patch (with BUILD.gn), the report, done
Stage(p) ==
    CASE p = "main" -> 0
      [] p \in {"platform_dir", "config_components", "codec_list", "parser_list",
                "demuxer_list"} -> 1
      [] p = "gni" -> 2
      [] p = "build_gn" -> 3
      [] p = "report" -> 4
      [] OTHER -> 5

IsTargetFile(file) == Len(file) = 3 /\ <<file[1], file[2]>> \in Range(TARGETS)

\* the printed lines: for the descriptor, for per-target files, the summary
DescriptorLines ==
    {k \in 1..Len(summary) : summary[k][1] = "Patching" /\ summary[k][2] = FFMPEG_GENERATED_GNI}

TargetLines ==
    {k \in 1..Len(summary) : summary[k][1] = "Patching" /\ IsTargetFile(summary[k][2])}

SummaryLines == {k \in 1..Len(summary) : summary[k] = <<"Summary">>}

\* main never goes back a stage, and leaves the descriptor patch and every
\* later stage after one step
StagesAdvance ==
    script = "patch_ffmpeg_configs" =>
        /\ Stage(pc') >= Stage(pc)
        /\ Stage(pc) >= 2 => Stage(pc') > Stage(pc)
        /\ Stage(pc) >= 2 =>
               \A k \in 1..Len(written') : IsTargetFile(written'[k]) => k <= Len(written)

\* what was printed and written is in the order of the stages: the line of
\* the descriptor at most once and after every per-target line, the summary
\* after it, per-target files written before the descriptor and its wrappers
OutputInOrder ==
    script = "patch_ffmpeg_configs" =>
        /\ Cardinality(DescriptorLines) <= 1
        /\ \A d \in DescriptorLines : \A t \in TargetLines : t < d
        /\ \A r \in SummaryLines : \E d \in DescriptorLines : d < r
        /\ \A i, j \in 1..Len(written) :
               (i < j /\ IsTargetFile(written[j])) => IsTargetFile(written[i])

\* the run is past the checks of main's first lines
PassedChecks ==
    /\ script = "patch_ffmpeg_configs"
    /\ pc # "main"
    /\ ~(pc = "done" /\ status = 1 /\ error = "")

\* C17 as stated: in every run that passes its initial checks the steps are
\* in the order Init, per-target patches, descriptor patch, report, done, and
\* the run that is done has rebuilt the descriptor exactly once.
C17_RebuildExactlyOnce ==
    /\ [][StagesAdvance]_vars
    /\ []OutputInOrder
    /\ []((PassedChecks /\ pc = "done") => Cardinality(DescriptorLines) = 1)

\* C17: in every run that passes its initial checks the steps are in the
\* order Init, per-target patches, descriptor patch, report, done: no
\* per-target file is read or written once the descriptor rebuild has
\* started, the summary is printed only after the rebuild, and the rebuild
\* runs at most once: once in a run that ends with status 0, not at all in
\* a run that a structural error of a list file ends.
C17_StepsInOrder ==
    /\ [][StagesAdvance]_vars
    /\ []OutputInOrder
    /\ []((PassedChecks /\ pc = "done" /\ status = 0) =>
              (Cardinality(DescriptorLines) = 1 /\ Cardinality(SummaryLines) = 1))
    /\ []((PassedChecks /\ pc = "done" /\ status # 0) =>
              (error \in StructuralErrors /\ DescriptorLines = {} /\ SummaryLines = {}))

\* C17 witness: a finished run that patched and wrote per-target files of
\* both targets, then rebuilt and wrote the descriptor, then printed the
\* summary
C17_Witness ==
    /\ PassedChecks /\ pc = "done" /\ status = 0
    /\ \E d \in DescriptorLines : \E r \in SummaryLines : d < r
    /\ \A t \in 1..Len(TARGETS) :
           \E k \in TargetLines : <<summary[k][2][1], summary[k][2][2]>> = TARGETS[t]
    /\ \E i, j \in 1..Len(written) :
           i < j /\ IsTargetFile(written[i]) /\ written[j] = FFMPEG_GENERATED_GNI

(***************************************************************************)
(* Claims about what a transformation reports when nothing is to be done.  *)
(***************************************************************************)
\* C14: when a rebuild leaves the descriptor's text unchanged because the
\* descriptor already holds the up-to-date managed block, the count it
\* reports is 0.
C14_UpToDateCountsZero ==
    (gniRuns >= 1 /\ Count(gniIn, MK) = 1 /\ gniRes.text = gniIn) => gniRes.added = 0

(***************************************************************************)
(* Claims about find_block_end (SpecBlock).                                *)
(***************************************************************************)
\* the braces opened and not yet closed in text[from..k]
DepthAt(text, from, k) ==
    Cardinality({i \in from..k : text[i] = LB}) - Cardinality({i \in from..k : text[i] = RB})

\* the places from the opening brace on where the depth is back at zero
BackAtZero(text, from) == {k \in from..Len(text) : DepthAt(text, from, k) = 0}

\* C18: find_block_end returns the index just past the closing brace that
\* matches the opening one, nesting counted, and not-found exactly when the
\* depth never returns to zero before the end of the text.
C18_MatchingBrace ==
    (fnName = "find_block_end" /\ fnRuns = 1) =>
        IF BackAtZero(fnText, fnIn) = {} THEN fnOut = 0
        ELSE /\ fnOut - 1 \in BackAtZero(fnText, fnIn)
             /\ \A k \in BackAtZero(fnText, fnIn) : fnOut - 1 <= k
             /\ fnText[fnOut - 1] = RB

\* C18 witness: the opening brace has a nested block behind it, and the
\* result is the index past the outer closing brace, not the first one
C18_Witness ==
    /\ fnName = "find_block_end" /\ fnRuns = 1
    /\ fnOut # 0
    /\ \E i, j \in (fnIn + 1)..(fnOut - 2) : i < j /\ fnText[i] = LB /\ fnText[j] = RB

\* C18 witness of the other case: an opening brace that is never closed
C18_Unclosed ==
    /\ fnName = "find_block_end" /\ fnRuns = 1
    /\ fnOut = 0
    /\ \E j \in (fnIn + 1)..Len(fnText) : fnText[j] = RB

============================================================================
